---- MODULE Spec2Model ----
(***************************************************************************)
(* Model of the statement-analysis pipeline of server/server.js:           *)
(* analyzeTransactions (row normalisation, classification, aggregates)     *)
(* and checkEligibility (additive score, eligibility, loan amount), and    *)
(* of the handlers around them: register, login, upload, check-eligibility *)
(* and history, with the users, the applications, the uploads directory    *)
(* and the clock they share.                                               *)
(*                                                                         *)
(* JavaScript numbers are modelled as exact rationals [n, d] in lowest     *)
(* terms (d > 0); strings are modelled as sequences of one-character       *)
(* strings so that toLowerCase, trim, includes, replace and parseFloat     *)
(* are computed character by character.                                    *)
(***************************************************************************)
EXTENDS Integers, Sequences, FiniteSets, TLC

VARIABLES data, analysis, eligibility, pc,
          clock, users, applications, uploads, requests, last

\* the state of the server: Date.now(), the two lists in memory, the files of
\* the uploads directory, the requests in flight and the last response
server == <<clock, users, applications, uploads, requests, last>>

vars == <<data, analysis, eligibility, pc, server>>

----------------------------------------------------------------------------
(* Numbers *)

Abs(x) == IF x < 0 THEN -x ELSE x

RECURSIVE GCD(_, _)
GCD(a, b) == IF b = 0 THEN a ELSE GCD(b, a % b)

\* the rational n/d in lowest terms with a positive denominator (d # 0)
QN(n, d) ==
  LET g == GCD(Abs(n), Abs(d))
      s == IF d < 0 THEN -1 ELSE 1
  IN  [n |-> s * (n \div g), d |-> s * (d \div g)]

QI(i) == [n |-> i, d |-> 1]

QZero == QI(0)

QAdd(a, b) == QN(a.n * b.d + b.n * a.d, a.d * b.d)

QNeg(a) == [n |-> -a.n, d |-> a.d]

QSub(a, b) == QAdd(a, QNeg(b))

\* cross-reduced before multiplying, so that intermediate products stay small
QMul(a, b) ==
  LET g1 == GCD(Abs(a.n), b.d)
      g2 == GCD(Abs(b.n), a.d)
  IN  IF a.n = 0 \/ b.n = 0 THEN QZero
      ELSE QN((a.n \div g1) * (b.n \div g2), (a.d \div g2) * (b.d \div g1))

\* a / b for b # 0
QDiv(a, b) == QMul(a, QN(b.d, b.n))

QLt(a, b) == a.n * b.d < b.n * a.d

QGt(a, b) == QLt(b, a)

QGe(a, b) == b.n * a.d <= a.n * b.d

QAbs(a) == [n |-> Abs(a.n), d |-> a.d]

QMin(a, b) == IF QLt(b, a) THEN b ELSE a

QMax(a, b) == IF QGt(b, a) THEN b ELSE a

\* Math.round: the nearest integer, halves towards +Infinity
MathRound(a) == (2 * a.n + a.d) \div (2 * a.d)

\* Math.ceil
MathCeil(a) == -((-a.n) \div a.d)

----------------------------------------------------------------------------
(* checkEligibility *)

threshold == 10000

LoanCap == 100000

\* the running score, strengths and warnings after a rule; pts may be negative
Push(st, pts, strength, warning) ==
  [score |-> st.score + pts,
   strengths |-> st.strengths \o strength,
   warnings |-> st.warnings \o warning]

\* 1. income vs expenses; the ratio is compared as expenses*100/income
Rule1(a, st) ==
  IF QGt(a.totalIncome, a.totalExpenses)
  THEN LET st1 == Push(st, 30, <<"Income exceeds expenses">>, <<>>)
           ratio == QMul(QDiv(a.totalExpenses, a.totalIncome), QI(100))
       IN  IF QLt(ratio, QI(70))
           THEN Push(st1, 5, <<"Low expense-to-income ratio">>, <<>>)
           ELSE IF QGt(ratio, QI(90))
           THEN Push(st1, 0, <<>>, <<"High expense-to-income ratio">>)
           ELSE st1
  ELSE Push(st, 0, <<>>, <<"Expenses exceed income">>)

\* 2. monthly savings
Rule2(a, st) ==
  IF QGt(a.savingsPerMonth, QI(threshold))
  THEN Push(st, 25, <<"Monthly savings exceeds threshold">>, <<>>)
  ELSE IF QGt(a.savingsPerMonth, QZero)
  THEN Push(st, 10, <<>>, <<"Monthly savings below threshold">>)
  ELSE Push(st, 0, <<>>, <<"Negative monthly savings">>)

\* 3. savings rate
\* Rule3 with no warning for a low savings rate
Rule3_NoWarning(a, st) ==
  IF QGe(a.savingsRate, QI(20))
  THEN Push(st, 15, <<"High savings rate">>, <<>>)
  ELSE IF QGe(a.savingsRate, QI(10))
  THEN Push(st, 10, <<"Moderate savings rate">>, <<>>)
  ELSE IF QGt(a.savingsRate, QZero)
  THEN Push(st, 5, <<>>, <<>>)
  ELSE st

Rule3(a, st) ==
  IF QGe(a.savingsRate, QI(20))
  THEN Push(st, 15, <<"High savings rate">>, <<>>)
  ELSE IF QGe(a.savingsRate, QI(10))
  THEN Push(st, 10, <<"Moderate savings rate">>, <<>>)
  ELSE IF QGt(a.savingsRate, QZero)
  THEN Push(st, 5, <<>>, <<"Low savings rate">>)
  ELSE st

\* 4. income consistency
Rule4(a, st) ==
  IF QGe(a.incomeConsistency, QI(80))
  THEN Push(st, 10, <<"Very consistent income pattern">>, <<>>)
  ELSE IF QGe(a.incomeConsistency, QI(60))
  THEN Push(st, 7, <<"Moderately consistent income">>, <<>>)
  ELSE IF QGe(a.incomeConsistency, QI(40))
  THEN Push(st, 4, <<>>, <<"Irregular income pattern">>)
  ELSE Push(st, 0, <<>>, <<"Highly irregular income">>)

\* 5. spending volatility
Rule5(a, st) ==
  IF QGe(a.spendingVolatility, QI(80))
  THEN Push(st, 10, <<"Stable spending patterns">>, <<>>)
  ELSE IF QGe(a.spendingVolatility, QI(60))
  THEN Push(st, 7, <<"Moderately stable spending">>, <<>>)
  ELSE Push(st, 0, <<>>, <<"High spending volatility">>)

\* Rule6 without the points of a low buffer
Rule6_NoLowBuffer(a, st) ==
  IF QGe(a.emergencySavingsBuffer, QI(6))
  THEN Push(st, 10, <<"Strong emergency buffer">>, <<>>)
  ELSE IF QGe(a.emergencySavingsBuffer, QI(3))
  THEN Push(st, 7, <<"Adequate emergency buffer">>, <<>>)
  ELSE IF QGt(a.emergencySavingsBuffer, QZero)
  THEN Push(st, 0, <<>>, <<"Low emergency buffer">>)
  ELSE Push(st, 0, <<>>, <<"No emergency savings buffer">>)

\* 6. emergency savings buffer
Rule6(a, st) ==
  IF QGe(a.emergencySavingsBuffer, QI(6))
  THEN Push(st, 10, <<"Strong emergency buffer">>, <<>>)
  ELSE IF QGe(a.emergencySavingsBuffer, QI(3))
  THEN Push(st, 7, <<"Adequate emergency buffer">>, <<>>)
  ELSE IF QGt(a.emergencySavingsBuffer, QZero)
  THEN Push(st, 4, <<>>, <<"Low emergency buffer">>)
  ELSE Push(st, 0, <<>>, <<"No emergency savings buffer">>)

\* 7. bill payment regularity
Rule7(a, st) ==
  IF QGe(a.billPaymentRegularity, QI(80))
  THEN Push(st, 5, <<"Regular bill payments detected">>, <<>>)
  ELSE Push(st, 2, <<>>, <<>>)

\* 8. account age
Rule8(a, st) ==
  IF QGe(a.accountAgeMonths, QI(12))
  THEN Push(st, 5, <<"Long account history">>, <<>>)
  ELSE IF QGe(a.accountAgeMonths, QI(6))
  THEN Push(st, 3, <<"Moderate account history">>, <<>>)
  ELSE Push(st, 0, <<>>, <<"Short account history">>)

\* debtRatio > limit, where debtRatio = monthlyDebtObligations /
\* averageMonthlyIncome * 100 is +Infinity when the income is 0
DebtRatioAbove(a, limit) ==
  IF a.averageMonthlyIncome.n = 0 THEN TRUE
  ELSE QGt(QMul(QDiv(a.monthlyDebtObligations, a.averageMonthlyIncome), QI(100)),
           QI(limit))

\* Rule9 with the running total capped at 100 before the penalty
Rule9_Clamped(a, st) ==
  LET capped == [st EXCEPT !.score = IF st.score > 100 THEN 100 ELSE st.score]
  IN  IF QGt(a.monthlyDebtObligations, QZero)
      THEN IF DebtRatioAbove(a, 40)
           THEN Push(capped, -15, <<>>, <<"High debt obligations">>)
           ELSE IF DebtRatioAbove(a, 20)
           THEN Push(capped, -8, <<>>, <<"Moderate debt obligations">>)
           ELSE Push(st, 0, <<"Low debt obligations">>, <<>>)
      ELSE st

\* 9. debt obligations (penalty)
Rule9(a, st) ==
  IF QGt(a.monthlyDebtObligations, QZero)
  THEN IF DebtRatioAbove(a, 40)
       THEN Push(st, -15, <<>>, <<"High debt obligations">>)
       ELSE IF DebtRatioAbove(a, 20)
       THEN Push(st, -8, <<>>, <<"Moderate debt obligations">>)
       ELSE Push(st, 0, <<"Low debt obligations">>, <<>>)
  ELSE st

\* Math.max(0, Math.min(100, score))
FinalScore(raw) ==
  LET capped == IF raw < 100 THEN raw ELSE 100
  IN  IF capped > 0 THEN capped ELSE 0

\* Eligible without the condition on the savings rate
Eligible_NoRate(a, score) ==
  /\ score >= 60
  /\ QGt(a.savingsPerMonth, QI(threshold))
  /\ QGt(a.totalIncome, a.totalExpenses)

Eligible(a, score) ==
  /\ score >= 60
  /\ QGt(a.savingsPerMonth, QI(threshold))
  /\ QGt(a.totalIncome, a.totalExpenses)
  /\ QGt(a.savingsRate, QI(5))

\* RecommendedAmount without the cap
RecommendedAmount_NoCap(a, score) ==
  QMul(QMul(a.savingsPerMonth, QI(3)), QN(score, 100))

\* Math.min(savingsPerMonth * 3 * (score / 100), 100000)
RecommendedAmount(a, score) ==
  QMin(QMul(QMul(a.savingsPerMonth, QI(3)), QN(score, 100)), QI(LoanCap))

\* RiskLevel with the boundaries on the wrong side
RiskLevel_Inclusive(score) ==
  IF score <= 40 THEN "high"
  ELSE IF score <= 60 THEN "medium"
  ELSE IF score <= 80 THEN "low"
  ELSE "very-low"

RiskLevel(score) ==
  IF score < 40 THEN "high"
  ELSE IF score < 60 THEN "medium"
  ELSE IF score < 80 THEN "low"
  ELSE "very-low"

\* Reasons with the two lists exchanged
Reasons_Swapped(eligible, strengths, warnings) ==
  IF ~eligible THEN strengths
  ELSE IF Len(warnings) > 0 THEN warnings
  ELSE <<"Insufficient criteria met">>

Reasons(eligible, strengths, warnings) ==
  IF eligible THEN strengths
  ELSE IF Len(warnings) > 0 THEN warnings
  ELSE <<"Insufficient criteria met">>

checkEligibility(a) ==
  LET st0 == [score |-> 0, strengths |-> <<>>, warnings |-> <<>>]
      st9 == Rule9(a, Rule8(a, Rule7(a, Rule6(a, Rule5(a,
               Rule4(a, Rule3(a, Rule2(a, Rule1(a, st0)))))))))
      score == FinalScore(st9.score)
      eligible == Eligible(a, score)
      recommendedAmount == RecommendedAmount(a, score)
      maxLoanAmount == QMax(recommendedAmount, QZero)
  IN  [eligible |-> eligible,
       score |-> MathRound(QI(score)),
       riskLevel |-> RiskLevel(score),
       reasons |-> Reasons(eligible, st9.strengths, st9.warnings),
       strengths |-> st9.strengths,
       warnings |-> st9.warnings,
       recommendedLoanAmount |-> IF eligible THEN MathRound(recommendedAmount) ELSE 0,
       maxLoanAmount |-> MathRound(maxLoanAmount),
       metrics |-> [savingsRate |-> a.savingsRate,
                    incomeConsistency |-> a.incomeConsistency,
                    spendingVolatility |-> a.spendingVolatility,
                    emergencySavingsBuffer |-> a.emergencySavingsBuffer,
                    billPaymentRegularity |-> a.billPaymentRegularity,
                    accountAgeMonths |-> a.accountAgeMonths,
                    monthlyDebtObligations |-> a.monthlyDebtObligations]]

----------------------------------------------------------------------------
(* Strings: sequences of one-character strings *)

\* the letters toLowerCase maps and the digits
Chars ==
  [upper |->
     <<"A", "B", "C", "D", "E", "F", "G", "H", "I", "J", "K", "L", "M", "N", "O", "P", "Q", "R", "S", "T", "U", "V", "W", "X", "Y", "Z">>,
   lower |->
     <<"a", "b", "c", "d", "e", "f", "g", "h", "i", "j", "k", "l", "m", "n", "o", "p", "q", "r", "s", "t", "u", "v", "w", "x", "y", "z">>,
   digit |-> <<"0", "1", "2", "3", "4", "5", "6", "7", "8", "9">>]

Digits == { Chars.digit[i] : i \in 1..10 }

\* String.prototype.toLowerCase
ToLowerCase(s) ==
  [i \in 1..Len(s) |->
     IF \E k \in 1..26 : Chars.upper[k] = s[i]
     THEN Chars.lower[CHOOSE k \in 1..26 : Chars.upper[k] = s[i]]
     ELSE s[i]]

RECURSIVE TrimStart(_)
TrimStart(s) ==
  IF s # <<>> /\ Head(s) = " " THEN TrimStart(Tail(s)) ELSE s

RECURSIVE TrimEnd(_)
TrimEnd(s) ==
  IF s # <<>> /\ s[Len(s)] = " " THEN TrimEnd(SubSeq(s, 1, Len(s) - 1)) ELSE s

\* String.prototype.trim
Trim(s) == TrimEnd(TrimStart(s))

\* String.prototype.includes
Includes(s, sub) ==
  \E i \in 1..(Len(s) - Len(sub) + 1) : SubSeq(s, i, i + Len(sub) - 1) = sub

\* .replace(/,/g, '')
StripCommas(s) == SelectSeq(s, LAMBDA c : c # ",")

\* the length of the run of digits at the start of s
RECURSIVE DigitRun(_)
DigitRun(s) ==
  IF s # <<>> /\ Head(s) \in Digits THEN 1 + DigitRun(Tail(s)) ELSE 0

\* the value of a sequence of digits, acc being the value read so far
RECURSIVE DigitsValue(_, _)
DigitsValue(s, acc) ==
  IF s = <<>> THEN acc ELSE DigitsValue(Tail(s), 10 * acc + ((CHOOSE i \in 1..10 : Chars.digit[i] = Head(s)) - 1))

RECURSIVE Pow10(_)
Pow10(k) == IF k = 0 THEN 1 ELSE 10 * Pow10(k - 1)

NaN == [n |-> 0, d |-> 0]

\* parseFloat: leading white space, an optional sign, digits and an optional
\* fraction; the longest such prefix is the value and anything after it is
\* ignored; NaN when the prefix has no digit (exponents are not modelled)
ParseFloat(str) ==
  LET s == TrimStart(str)
      signed == s # <<>> /\ Head(s) \in {"+", "-"}
      body == IF signed THEN Tail(s) ELSE s
      il == DigitRun(body)
      rest == SubSeq(body, il + 1, Len(body))
      hasDot == rest # <<>> /\ Head(rest) = "."
      fl == IF hasDot THEN DigitRun(Tail(rest)) ELSE 0
      ipart == DigitsValue(SubSeq(body, 1, il), 0)
      fpart == IF hasDot THEN DigitsValue(SubSeq(Tail(rest), 1, fl), 0) ELSE 0
      mag == QAdd(QI(ipart), QN(fpart, Pow10(fl)))
  IN  IF il + fl = 0 THEN NaN
      ELSE IF signed /\ Head(s) = "-" THEN QNeg(mag) ELSE mag

\* the decimal digits of a natural number
RECURSIVE NatToString(_)
NatToString(k) ==
  IF k < 10 THEN <<Chars.digit[k + 1]>>
  ELSE NatToString(k \div 10) \o <<Chars.digit[(k % 10) + 1]>>

\* the digits after the point of r/d, 0 <= r < d, for a fraction whose decimal
\* expansion ends (every number of the model is read from such a string)
RECURSIVE FractionDigits(_, _)
FractionDigits(r, d) ==
  IF r = 0 THEN <<>>
  ELSE <<Chars.digit[((10 * r) \div d) + 1]>> \o FractionDigits((10 * r) % d, d)

\* String(x) for a number x
NumberToString(x) ==
  (IF x.n < 0 THEN <<"-">> ELSE <<>>)
    \o NatToString(Abs(x.n) \div x.d)
    \o (IF Abs(x.n) % x.d = 0 THEN <<>>
        ELSE <<".">> \o FractionDigits(Abs(x.n) % x.d, x.d))

\* parseFloat(String(v).replace(/,/g, ''))
ParseAmount(v) == ParseFloat(StripCommas(v))

----------------------------------------------------------------------------
(* Rows: a row is a sequence of <<key, value>> pairs with distinct keys,   *)
(* in the order of Object.keys; keys and values are strings                *)

\* row[k]
Get(row, k) ==
  IF \E i \in 1..Len(row) : row[i][1] = k THEN row[CHOOSE i \in 1..Len(row) : row[i][1] = k][2]
  ELSE <<"undefined">>

amountColumns ==
  << <<"a", "m", "o", "u", "n", "t">>,
     <<"t", "r", "a", "n", "s", "a", "c", "t", "i", "o", "n", "_", "a", "m", "o", "u", "n", "t">>,
     <<"a", "m", "o", "u", "n", "t", "_", "i", "n", "r">>,
     <<"v", "a", "l", "u", "e">>,
     <<"b", "a", "l", "a", "n", "c", "e">>,
     <<"c", "r", "e", "d", "i", "t">>,
     <<"d", "e", "b", "i", "t">>,
     <<"d", "e", "p", "o", "s", "i", "t">>,
     <<"w", "i", "t", "h", "d", "r", "a", "w", "a", "l">>,
     <<"t", "r", "a", "n", "s", "a", "c", "t", "i", "o", "n", " ", "v", "a", "l", "u", "e">>,
     <<"a", "m", "t">>,
     <<"a", "m", "o", "u", "n", "t", " ", "(", "i", "n", "r", ")">>,
     <<"t", "r", "a", "n", "s", "a", "c", "t", "i", "o", "n", " ", "a", "m", "o", "u", "n", "t">>,
     <<"b", "a", "l", "a", "n", "c", "e", " ", "a", "m", "o", "u", "n", "t">> >>

typeColumns ==
  << <<"t", "y", "p", "e">>,
     <<"t", "r", "a", "n", "s", "a", "c", "t", "i", "o", "n", "_", "t", "y", "p", "e">>,
     <<"c", "a", "t", "e", "g", "o", "r", "y">>,
     <<"d", "e", "s", "c", "r", "i", "p", "t", "i", "o", "n">>,
     <<"n", "a", "r", "r", "a", "t", "i", "o", "n">>,
     <<"p", "a", "r", "t", "i", "c", "u", "l", "a", "r", "s">>,
     <<"d", "e", "t", "a", "i", "l", "s">>,
     <<"t", "r", "a", "n", "s", "a", "c", "t", "i", "o", "n", " ", "d", "e", "s", "c", "r", "i", "p", "t", "i", "o", "n">>,
     <<"r", "e", "m", "a", "r", "k", "s">> >>

dateColumns ==
  << <<"d", "a", "t", "e">>,
     <<"t", "r", "a", "n", "s", "a", "c", "t", "i", "o", "n", "_", "d", "a", "t", "e">>,
     <<"d", "a", "t", "e", "_", "t", "i", "m", "e">>,
     <<"v", "a", "l", "u", "e", " ", "d", "a", "t", "e">>,
     <<"t", "r", "a", "n", "s", "a", "c", "t", "i", "o", "n", " ", "d", "a", "t", "e">>,
     <<"d", "a", "t", "e", " ", "o", "f", " ", "t", "r", "a", "n", "s", "a", "c", "t", "i", "o", "n">>,
     <<"p", "o", "s", "t", "i", "n", "g", " ", "d", "a", "t", "e">> >>

expenseKeywords ==
  << <<"p", "u", "r", "c", "h", "a", "s", "e">>,
     <<"c", "h", "e", "c", "k">>,
     <<"w", "i", "t", "h", "d", "r", "a", "w", "a", "l">>,
     <<"c", "h", "a", "r", "g", "e">>,
     <<"d", "e", "b", "i", "t">>,
     <<"p", "a", "y", "m", "e", "n", "t">>,
     <<"f", "e", "e">> >>

incomeKeywords ==
  << <<"c", "r", "e", "d", "i", "t">>,
     <<"d", "e", "p", "o", "s", "i", "t">>,
     <<"i", "n", "t", "e", "r", "e", "s", "t">>,
     <<"s", "a", "l", "a", "r", "y">>,
     <<"i", "n", "c", "o", "m", "e">>,
     <<"p", "r", "e", "a", "u", "t", "h", "o", "r", "i", "z", "e", "d">> >>

debtKeywords ==
  << <<"l", "o", "a", "n">>,
     <<"e", "m", "i">>,
     <<"c", "r", "e", "d", "i", "t", " ", "c", "a", "r", "d">>,
     <<"d", "e", "b", "t">>,
     <<"r", "e", "p", "a", "y", "m", "e", "n", "t">>,
     <<"i", "n", "s", "t", "a", "l", "l", "m", "e", "n", "t">> >>


\* k.toLowerCase().trim() for every key of the row
NormalizedKeys(row) == [i \in 1..Len(row) |-> Trim(ToLowerCase(row[i][1]))]

\* col.toLowerCase().trim() for every alias of a list
NormalizedColumns(cols) == [i \in 1..Len(cols) |-> Trim(ToLowerCase(cols[i]))]

amountColumnsNormalized == NormalizedColumns(amountColumns)

typeColumnsNormalized == NormalizedColumns(typeColumns)

dateColumnsNormalized == NormalizedColumns(dateColumns)

\* row[matchingKey] for matchingKey = keys.find(k => k.toLowerCase().trim()
\* === col.toLowerCase().trim()), the first key that matches; '' stands for
\* every value the loops skip (no matching key, or an empty value)
ValueOf(row, keys, col) ==
  LET matching == { i \in 1..Len(keys) : keys[i] = col }
  IN  IF matching = {} THEN <<>>
      ELSE row[CHOOSE i \in matching : \A j \in matching : i <= j][2]

\* parseFloat(...) || 0
ParseOrZero(v) ==
  LET a == ParseAmount(v) IN IF a = NaN THEN QZero ELSE a

\* FindAmount ending the loop at the first alias with a non-empty value
RECURSIVE FindAmount_FirstNonEmpty(_, _, _, _)
FindAmount_FirstNonEmpty(row, keys, i, amount) ==
  IF i > Len(amountColumnsNormalized) THEN amount
  ELSE IF ValueOf(row, keys, amountColumnsNormalized[i]) = <<>>
  THEN FindAmount_FirstNonEmpty(row, keys, i + 1, amount)
  ELSE ParseOrZero(ValueOf(row, keys, amountColumnsNormalized[i]))

\* the loop over amountColumns from alias i on, amount being the value so far:
\* every alias with a non-empty value assigns amount, the first non-zero one
\* ends the loop
RECURSIVE FindAmount(_, _, _, _)
FindAmount(row, keys, i, amount) ==
  IF i > Len(amountColumnsNormalized) THEN amount
  ELSE LET v == ValueOf(row, keys, amountColumnsNormalized[i])
           a == ParseOrZero(v)
       IN  IF v = <<>> THEN FindAmount(row, keys, i + 1, amount)
           ELSE IF a # QZero THEN a
           ELSE FindAmount(row, keys, i + 1, a)

\* the value of the first alias of cols, from alias i on, with a non-empty
\* value; '' when there is none
RECURSIVE FirstValue(_, _, _, _)
FirstValue(row, keys, cols, i) ==
  IF i > Len(cols) THEN <<>>
  ELSE LET v == ValueOf(row, keys, cols[i])
       IN  IF v # <<>> THEN v ELSE FirstValue(row, keys, cols, i + 1)

\* the string literals of analyzeTransactions
Str ==
  [description |-> <<"d", "e", "s", "c", "r", "i", "p", "t", "i", "o", "n">>,
   narration |-> <<"n", "a", "r", "r", "a", "t", "i", "o", "n">>,
   particulars |-> <<"p", "a", "r", "t", "i", "c", "u", "l", "a", "r", "s">>,
   date |-> <<"d", "a", "t", "e">>,
   id |-> <<"i", "d">>,
   no |-> <<"n", "o">>,
   type |-> <<"t", "y", "p", "e">>,
   credit |-> <<"c", "r", "e", "d", "i", "t">>,
   debit |-> <<"d", "e", "b", "i", "t">>,
   Transaction |-> <<"T", "r", "a", "n", "s", "a", "c", "t", "i", "o", "n">>,
   NA |-> <<"N", "/", "A">>]

\* the description taken from the first key that contains 'description',
\* 'narration' or 'particulars', when the type columns gave none
FallbackDescription(row) ==
  LET descKeys == SelectSeq([i \in 1..Len(row) |-> row[i][1]], LAMBDA k :
                    \/ Includes(ToLowerCase(k), Str.description)
                    \/ Includes(ToLowerCase(k), Str.narration)
                    \/ Includes(ToLowerCase(k), Str.particulars))
  IN  IF Len(descKeys) > 0 THEN Get(row, descKeys[1]) ELSE <<>>

\* the loop over all fields, from field i on, that looks for a numeric value
\* when no amount column gave a non-zero amount
RECURSIVE FallbackAmount(_, _)
FallbackAmount(row, i) ==
  IF i > Len(row) THEN QZero
  ELSE LET key == ToLowerCase(row[i][1])
           value == ParseAmount(row[i][2])
       IN  IF Includes(key, Str.date) \/ Includes(key, Str.id) \/ Includes(key, Str.no)
           THEN FallbackAmount(row, i + 1)
           ELSE IF value # NaN /\ QGt(QAbs(value), QZero)
                   /\ QLt(QAbs(value), QI(100000000))
           THEN value
           ELSE FallbackAmount(row, i + 1)

\* Resolved with the description column looked at before the other columns
\* of typeColumns
Resolved_DescriptionFirst(row, keys, amount, type) ==
  LET text == IF ValueOf(row, keys, Str.description) # <<>>
              THEN ValueOf(row, keys, Str.description) ELSE type
  IN  [amount |-> IF amount = QZero THEN FallbackAmount(row, 1) ELSE amount,
       type |-> ToLowerCase(text),
       description |-> IF text = <<>> THEN FallbackDescription(row) ELSE text,
       date |-> FirstValue(row, keys, dateColumnsNormalized, 1)]

\* the four values the first part of the forEach callback resolves for a row
\* (keys are the normalised keys of the row, amount and type the values the
\* loops over amountColumns and typeColumns end with; description = type)
Resolved(row, keys, amount, type) ==
  [amount |-> IF amount = QZero THEN FallbackAmount(row, 1) ELSE amount,
   type |-> ToLowerCase(type),
   description |-> IF type = <<>> THEN FallbackDescription(row) ELSE type,
   date |-> FirstValue(row, keys, dateColumnsNormalized, 1)]

NormalizeKeyed(row, keys) ==
  Resolved(row, keys, FindAmount(row, keys, 1, QZero),
           FirstValue(row, keys, typeColumnsNormalized, 1))

Normalize(row) == NormalizeKeyed(row, NormalizedKeys(row))

\* a || b || c on strings: the first non-empty one
Or3(a, b, c) == IF a # <<>> THEN a ELSE IF b # <<>> THEN b ELSE c

\* Transaction with the signed amount
Transaction_Signed(n, kind) ==
  [amount |-> n.amount,
   type |-> kind,
   description |-> Or3(n.type, n.description, Str.Transaction),
   date |-> IF n.date # <<>> THEN n.date ELSE Str.NA]

Transaction(n, kind) ==
  [amount |-> QAbs(n.amount),
   type |-> kind,
   description |-> Or3(n.type, n.description, Str.Transaction),
   date |-> IF n.date # <<>> THEN n.date ELSE Str.NA]

isExpense(descLower) ==
  \E i \in 1..Len(expenseKeywords) : Includes(descLower, expenseKeywords[i])

isIncome(descLower) ==
  \E i \in 1..Len(incomeKeywords) : Includes(descLower, incomeKeywords[i])

\* totalIncome += x with the transaction pushed
AddIncome(acc, n, x) ==
  [totalIncome |-> QAdd(acc.totalIncome, x),
   totalExpenses |-> acc.totalExpenses,
   transactions |-> Append(acc.transactions, Transaction(n, "income"))]

\* totalExpenses += x with the transaction pushed
AddExpense(acc, n, x) ==
  [totalIncome |-> acc.totalIncome,
   totalExpenses |-> QAdd(acc.totalExpenses, x),
   transactions |-> Append(acc.transactions, Transaction(n, "expense"))]

\* Classify adding the signed amount of a keyword or positive income
Classify_SignedIncome(acc, row, n) ==
  LET rowType == Get(row, Str.type)
      descLower == ToLowerCase(Or3(n.type, n.description, <<>>))
  IN  IF rowType = Str.credit THEN AddIncome(acc, n, QAbs(n.amount))
      ELSE IF rowType = Str.debit THEN AddExpense(acc, n, QAbs(n.amount))
      ELSE IF isExpense(descLower) THEN AddExpense(acc, n, QAbs(n.amount))
      ELSE IF isIncome(descLower) \/ QGt(n.amount, QZero)
      THEN AddIncome(acc, n, n.amount)
      ELSE IF QLt(n.amount, QZero) THEN AddExpense(acc, n, QAbs(n.amount))
      ELSE AddIncome(acc, n, n.amount)

\* Classify without the branch on the declared type
Classify_NoDeclared(acc, row, n) ==
  LET descLower == ToLowerCase(Or3(n.type, n.description, <<>>))
  IN  IF isExpense(descLower) THEN AddExpense(acc, n, QAbs(n.amount))
      ELSE IF isIncome(descLower) \/ QGt(n.amount, QZero)
      THEN AddIncome(acc, n, QAbs(n.amount))
      ELSE IF QLt(n.amount, QZero) THEN AddExpense(acc, n, QAbs(n.amount))
      ELSE AddIncome(acc, n, n.amount)

\* Classify with the income keywords looked at first
Classify_IncomeFirst(acc, row, n) ==
  LET rowType == Get(row, Str.type)
      descLower == ToLowerCase(Or3(n.type, n.description, <<>>))
  IN  IF rowType = Str.credit THEN AddIncome(acc, n, QAbs(n.amount))
      ELSE IF rowType = Str.debit THEN AddExpense(acc, n, QAbs(n.amount))
      ELSE IF isIncome(descLower) THEN AddIncome(acc, n, QAbs(n.amount))
      ELSE IF isExpense(descLower) THEN AddExpense(acc, n, QAbs(n.amount))
      ELSE IF QGt(n.amount, QZero) THEN AddIncome(acc, n, QAbs(n.amount))
      ELSE IF QLt(n.amount, QZero) THEN AddExpense(acc, n, QAbs(n.amount))
      ELSE AddIncome(acc, n, n.amount)

\* Classify taking an amount of 0 without keywords for an expense
Classify_ZeroIsExpense(acc, row, n) ==
  LET rowType == Get(row, Str.type)
      descLower == ToLowerCase(Or3(n.type, n.description, <<>>))
  IN  IF rowType = Str.credit THEN AddIncome(acc, n, QAbs(n.amount))
      ELSE IF rowType = Str.debit THEN AddExpense(acc, n, QAbs(n.amount))
      ELSE IF isExpense(descLower) THEN AddExpense(acc, n, QAbs(n.amount))
      ELSE IF isIncome(descLower) \/ QGt(n.amount, QZero)
      THEN AddIncome(acc, n, QAbs(n.amount))
      ELSE AddExpense(acc, n, QAbs(n.amount))

\* Classify taking the kinds income and expense as declared types too
Classify_KindsDeclared(acc, row, n) ==
  LET rowType == Get(row, Str.type)
      descLower == ToLowerCase(Or3(n.type, n.description, <<>>))
  IN  IF rowType \in {Str.credit, <<"i", "n", "c", "o", "m", "e">>}
      THEN AddIncome(acc, n, QAbs(n.amount))
      ELSE IF rowType \in {Str.debit, <<"e", "x", "p", "e", "n", "s", "e">>}
      THEN AddExpense(acc, n, QAbs(n.amount))
      ELSE IF isExpense(descLower) THEN AddExpense(acc, n, QAbs(n.amount))
      ELSE IF isIncome(descLower) \/ QGt(n.amount, QZero)
      THEN AddIncome(acc, n, QAbs(n.amount))
      ELSE IF QLt(n.amount, QZero) THEN AddExpense(acc, n, QAbs(n.amount))
      ELSE AddIncome(acc, n, n.amount)

\* the second part of the forEach callback: the row, resolved as n, added to
\* the totals and the transactions
Classify(acc, row, n) ==
  LET rowType == Get(row, Str.type)
      descLower == ToLowerCase(Or3(n.type, n.description, <<>>))
  IN  IF rowType = Str.credit THEN AddIncome(acc, n, QAbs(n.amount))
      ELSE IF rowType = Str.debit THEN AddExpense(acc, n, QAbs(n.amount))
      ELSE IF isExpense(descLower) THEN AddExpense(acc, n, QAbs(n.amount))
      ELSE IF isIncome(descLower) \/ QGt(n.amount, QZero)
      THEN AddIncome(acc, n, QAbs(n.amount))
      ELSE IF QLt(n.amount, QZero) THEN AddExpense(acc, n, QAbs(n.amount))
      ELSE AddIncome(acc, n, n.amount)

\* the forEach callback
ProcessRow(acc, row) == Classify(acc, row, Normalize(row))

\* data.forEach(...) from row i on
RECURSIVE ProcessRows(_, _, _)
ProcessRows(rows, i, acc) ==
  IF i > Len(rows) THEN acc
  ELSE ProcessRows(rows, i + 1, ProcessRow(acc, rows[i]))

----------------------------------------------------------------------------
(* Dates.  new Date(string) is modelled for the strings of the form        *)
(* YYYY-MM-DD, which parse as midnight UTC; every other string of the      *)
(* model is one the engine rejects (Invalid Date).  Times are counted in   *)
(* days since 1970-01-01 and the server's time zone is taken to be UTC.    *)

IsIsoDate(s) ==
  /\ Len(s) = 10
  /\ \A i \in {1, 2, 3, 4, 6, 7, 9, 10} : s[i] \in Digits
  /\ s[5] = "-" /\ s[8] = "-"
  /\ DigitsValue(SubSeq(s, 6, 7), 0) \in 1..12
  /\ DigitsValue(SubSeq(s, 9, 10), 0) \in 1..28

\* days from 1970-01-01 to the civil date y-m-d
DaysFromCivil(y, m, d) ==
  LET yy == IF m <= 2 THEN y - 1 ELSE y
      era == yy \div 400
      yoe == yy - era * 400
      mp == (m + 9) % 12
      doy == (153 * mp + 2) \div 5 + d - 1
      doe == yoe * 365 + yoe \div 4 - yoe \div 100 + doy
  IN  era * 146097 + doe - 719468

\* new Date(s): valid is !isNaN(d.getTime())
NewDate(s) ==
  IF IsIsoDate(s)
  THEN LET y == DigitsValue(SubSeq(s, 1, 4), 0)
           m == DigitsValue(SubSeq(s, 6, 7), 0)
           d == DigitsValue(SubSeq(s, 9, 10), 0)
       IN  [valid |-> TRUE, time |-> DaysFromCivil(y, m, d), year |-> y, month |-> m]
  ELSE [valid |-> FALSE, time |-> 0, year |-> 0, month |-> 0]

\* the value of new Date() when no transaction date parses: the clock
Now == [now |-> clock]

----------------------------------------------------------------------------
(* Statistics *)

RECURSIVE QSum(_)
QSum(values) ==
  IF values = <<>> THEN QZero ELSE QAdd(Head(values), QSum(Tail(values)))

calculateMean(values) ==
  IF Len(values) = 0 THEN QZero ELSE QDiv(QSum(values), QI(Len(values)))

\* the largest r in lo..hi-1 with r * r <= n
RECURSIVE ISqrt(_, _, _)
ISqrt(n, lo, hi) ==
  IF hi - lo <= 1 THEN lo
  ELSE LET mid == (lo + hi) \div 2
       IN  IF mid * mid <= n THEN ISqrt(n, mid, hi) ELSE ISqrt(n, lo, mid)

\* the largest scale among 1000, 100, 10, 1 whose square times x is an integer
\* of the model checker
RECURSIVE SqrtScale(_, _)
SqrtScale(x, scale) ==
  IF scale = 1 \/ x <= 2147483647 \div (scale * scale) THEN scale
  ELSE SqrtScale(x, scale \div 10)

\* Math.sqrt of a rational n/d >= 0, as sqrt(n * d) / d: exact when n * d is a
\* perfect square, and otherwise rounded down with a relative error below 1/1000
MathSqrt(a) ==
  LET x == a.n * a.d
      scale == SqrtScale(x, 1000)
  IN  QN(ISqrt(x * scale * scale, 0, 46341), a.d * scale)

RECURSIVE LCMDen(_)
LCMDen(values) ==
  IF values = <<>> THEN 1
  ELSE LET l == LCMDen(Tail(values))
       IN  (l \div GCD(l, Head(values).d)) * Head(values).d

RECURSIVE GCDNum(_, _)
GCDNum(values, l) ==
  IF values = <<>> THEN 0
  ELSE GCD(Abs(Head(values).n) * (l \div Head(values).d), GCDNum(Tail(values), l))

\* the largest rational of which every value is an integer multiple (1 when
\* every value is 0)
CommonMeasure(values) ==
  LET l == LCMDen(values)
      g == GCDNum(values, l)
  IN  IF g = 0 THEN QI(1) ELSE QN(g, l)

\* the squares of the differences are taken in units of the common measure of
\* the differences, which leaves the result unchanged and keeps the squares
\* within the integers of the model checker
calculateStandardDeviation(values) ==
  IF Len(values) = 0 THEN QZero
  ELSE LET mean == calculateMean(values)
           diffs == [i \in 1..Len(values) |-> QSub(values[i], mean)]
           unit == CommonMeasure(diffs)
           squaredDiffs == [i \in 1..Len(values) |->
                              QMul(QDiv(diffs[i], unit), QDiv(diffs[i], unit))]
           avgSquaredDiff == calculateMean(squaredDiffs)
       IN  QMul(unit, MathSqrt(avgSquaredDiff))

\* Math.max(0, Math.min(100, x))
Clamp100(x) == QMax(QZero, QMin(QI(100), x))

\* x || 1
----------------------------------------------------------------------------
(* detectRecurringPayments *)

\* PatternKey with the amount as it is, not rounded
PatternKey_Unrounded(t) == <<ToLowerCase(t.description), t.amount>>

PatternKey(t) == <<ToLowerCase(t.description), MathRound(t.amount)>>

\* the keys of the patterns in the order of their first transaction
RECURSIVE PatternKeys(_, _)
PatternKeys(transactions, seen) ==
  IF transactions = <<>> THEN seen
  ELSE LET key == PatternKey(Head(transactions))
       IN  PatternKeys(Tail(transactions),
             IF \E i \in 1..Len(seen) : seen[i] = key THEN seen
             ELSE Append(seen, key))

Pattern(transactions, key) ==
  LET members == SelectSeq(transactions, LAMBDA t : PatternKey(t) = key)
  IN  [description |-> members[1].description,
       amount |-> members[1].amount,
       count |-> Len(members),
       dates |-> [i \in 1..Len(members) |-> members[i].date]]

detectRecurringPayments(transactions) ==
  LET keys == PatternKeys(transactions, <<>>)
      patterns == [i \in 1..Len(keys) |-> Pattern(transactions, keys[i])]
  IN  SelectSeq(patterns, LAMBDA p : p.count >= 2)

----------------------------------------------------------------------------
(* analyzeTransactions *)

RECURSIVE SeqMin(_)
SeqMin(s) ==
  IF Len(s) = 1 THEN s[1]
  ELSE LET m == SeqMin(Tail(s)) IN IF Head(s) < m THEN Head(s) ELSE m

RECURSIVE SeqMax(_)
SeqMax(s) ==
  IF Len(s) = 1 THEN s[1]
  ELSE LET m == SeqMax(Tail(s)) IN IF Head(s) > m THEN Head(s) ELSE m

\* `${date.getFullYear()}-${String(date.getMonth() + 1).padStart(2, '0')}`:
\* the pair orders as the string does
MonthKey(date) == <<date.year, date.month>>

\* monthlyData after one more transaction, of a valid date whose month key is
\* key; monthlyData is the sequence of
\* the months' entries in the order of their insertion
AddToMonth(monthlyData, t, key) ==
  LET md == IF \E i \in 1..Len(monthlyData) : monthlyData[i].month = key
            THEN monthlyData
            ELSE Append(monthlyData,
                   [month |-> key, income |-> QZero, expenses |-> QZero, count |-> 0])
  IN  [i \in 1..Len(md) |->
              IF md[i].month # key THEN md[i]
              ELSE [month |-> key,
                    income |-> IF t.type = "income"
                               THEN QAdd(md[i].income, t.amount) ELSE md[i].income,
                    expenses |-> IF t.type = "income" THEN md[i].expenses
                                 ELSE QAdd(md[i].expenses, t.amount),
                    count |-> md[i].count + 1]]

\* GroupByMonth without the test of the date: a transaction whose date does
\* not parse goes to a bucket of its own key
RECURSIVE GroupByMonth_AllDates(_, _)
GroupByMonth_AllDates(transactions, monthlyData) ==
  IF transactions = <<>> THEN monthlyData
  ELSE GroupByMonth_AllDates(Tail(transactions),
         AddToMonth(monthlyData, Head(transactions),
                    MonthKey(NewDate(Head(transactions).date))))

RECURSIVE GroupByMonth(_, _)
GroupByMonth(transactions, monthlyData) ==
  IF transactions = <<>> THEN monthlyData
  ELSE IF ~NewDate(Head(transactions).date).valid
  THEN GroupByMonth(Tail(transactions), monthlyData)
  ELSE GroupByMonth(Tail(transactions),
         AddToMonth(monthlyData, Head(transactions),
                    MonthKey(NewDate(Head(transactions).date))))

\* SortedBreakdown without the sort: the months in the order of insertion
SortedBreakdown_Unsorted(monthlyData) ==
  [k \in 1..Len(monthlyData) |->
     [month |-> monthlyData[k].month, income |-> monthlyData[k].income,
      expenses |-> monthlyData[k].expenses,
      savings |-> QSub(monthlyData[k].income, monthlyData[k].expenses)]]

\* Object.keys(monthlyData).sort().map(...)
RECURSIVE SortedBreakdown(_)
SortedBreakdown(monthlyData) ==
  IF monthlyData = <<>> THEN <<>>
  ELSE LET i == CHOOSE j \in 1..Len(monthlyData) :
                  \A k \in 1..Len(monthlyData) :
                     k = j \/ (monthlyData[j].month[1] < monthlyData[k].month[1] \/ (monthlyData[j].month[1] = monthlyData[k].month[1] /\ monthlyData[j].month[2] < monthlyData[k].month[2]))
           m == monthlyData[i]
           rest == [k \in 1..(Len(monthlyData) - 1) |->
                      IF k < i THEN monthlyData[k] ELSE monthlyData[k + 1]]
       IN  <<[month |-> m.month, income |-> m.income, expenses |-> m.expenses,
              savings |-> QSub(m.income, m.expenses)]>> \o SortedBreakdown(rest)

isDebt(t) ==
  \E i \in 1..Len(debtKeywords) : Includes(ToLowerCase(t.description), debtKeywords[i])

\* the times of the transactions whose date is valid
dateRange(transactions) ==
  LET allDates == [i \in 1..Len(transactions) |-> NewDate(transactions[i].date)]
      valid == SelectSeq(allDates, LAMBDA d : d.valid)
  IN  [i \in 1..Len(valid) |-> valid[i].time]

\* maxDate - minDate in days; both are the present time when no date is valid
\* SpanDays with the span running to the current time
SpanDays_ToNow(times) ==
  IF Len(times) > 0 THEN SeqMax(times) - SeqMin(times) + clock ELSE clock

SpanDays(times) == IF Len(times) > 0 THEN SeqMax(times) - SeqMin(times) ELSE 0

daysDiff(times) ==
  IF MathCeil(QI(SpanDays(times))) > 1 THEN MathCeil(QI(SpanDays(times))) ELSE 1

\* monthsDiff counted in whole months of 30 days
monthsDiff_WholeMonths(times) == QMax(QI(1), QI(daysDiff(times) \div 30))

monthsDiff(times) == QMax(QI(1), QN(daysDiff(times), 30))

savingsRate(averageMonthlyIncome, savingsPerMonth) ==
  IF QGt(averageMonthlyIncome, QZero)
  THEN QMul(QDiv(savingsPerMonth, averageMonthlyIncome), QI(100))
  ELSE QZero

\* the positive ones among the months' values
PositiveMonths(values) == SelectSeq(values, LAMBDA x : QGt(x, QZero))

\* calculateStandardDeviation(months) / (calculateMean(months) || 1)
Dispersion(months) ==
  QDiv(calculateStandardDeviation(months), (IF calculateMean(months) = QZero THEN QI(1) ELSE calculateMean(months)))

incomeConsistency(incomeMonths) ==
  IF Len(incomeMonths) > 0
  THEN QMul(QSub(QI(1), Dispersion(incomeMonths)), QI(100))
  ELSE QZero

spendingVolatility(expenseMonths) ==
  IF Len(expenseMonths) > 0
  THEN QMul(Dispersion(expenseMonths), QI(100))
  ELSE QZero

\* totalDebtObligations with a transaction counted once for each keyword its
\* description contains
totalDebtObligations_PerKeyword(transactions) ==
  QSum([k \in 1..Len(debtKeywords) |->
          QSum([i \in 1..Len(transactions) |->
                  IF Includes(ToLowerCase(transactions[i].description), debtKeywords[k])
                  THEN transactions[i].amount ELSE QZero])])

totalDebtObligations(transactions) ==
  QSum([i \in 1..Len(SelectSeq(transactions, isDebt)) |->
          SelectSeq(transactions, isDebt)[i].amount])

ReturnedTransactions == 50

\* the object analyzeTransactions returns, from the totals, the transactions,
\* the times of the valid dates, monthsDiff and monthlyData
Analysis(totalIncome, totalExpenses, transactions, times, months, monthlyData) ==
  [totalIncome |-> totalIncome,
   totalExpenses |-> totalExpenses,
   savings |-> QSub(totalIncome, totalExpenses),
   averageMonthlyIncome |-> QDiv(totalIncome, months),
   averageMonthlyExpenses |-> QDiv(totalExpenses, months),
   savingsPerMonth |-> QSub(QDiv(totalIncome, months), QDiv(totalExpenses, months)),
   savingsRate |->
     savingsRate(QDiv(totalIncome, months),
                 QSub(QDiv(totalIncome, months), QDiv(totalExpenses, months))),
   transactionCount |-> Len(transactions),
   transactions |-> SubSeq(transactions, 1,
                      IF Len(transactions) < ReturnedTransactions
                      THEN Len(transactions) ELSE ReturnedTransactions),
   incomeConsistency |->
     Clamp100(incomeConsistency(PositiveMonths(
       [i \in 1..Len(monthlyData) |-> monthlyData[i].income]))),
   spendingVolatility |->
     Clamp100(QSub(QI(100), spendingVolatility(PositiveMonths(
       [i \in 1..Len(monthlyData) |-> monthlyData[i].expenses])))),
   emergencySavingsBuffer |-> IF QGt(QDiv(totalExpenses, months), QZero)
                              THEN QDiv(QSub(totalIncome, totalExpenses),
                                        QDiv(totalExpenses, months))
                              ELSE QZero,
   billPaymentRegularity |-> IF Len(detectRecurringPayments(transactions)) > 0
                             THEN QI(100) ELSE QI(50),
   accountAgeMonths |-> months,
   monthlyDebtObligations |-> QDiv(totalDebtObligations(transactions), months),
   totalDebtObligations |-> totalDebtObligations(transactions),
   monthlyBreakdown |-> SortedBreakdown(monthlyData),
   dateRange |-> [start |-> IF Len(times) > 0 THEN SeqMin(times) ELSE Now,
                  end |-> IF Len(times) > 0 THEN SeqMax(times) ELSE Now,
                  days |-> daysDiff(times)]]

\* the part of analyzeTransactions after data.forEach
Summarize(totalIncome, totalExpenses, transactions, times) ==
  Analysis(totalIncome, totalExpenses, transactions, times, monthsDiff(times),
           GroupByMonth(transactions, <<>>))

Totals(acc) ==
  Summarize(acc.totalIncome, acc.totalExpenses, acc.transactions,
            dateRange(acc.transactions))

analyzeTransactions(rows) ==
  Totals(ProcessRows(rows, 1,
           [totalIncome |-> QZero, totalExpenses |-> QZero, transactions |-> <<>>]))

----------------------------------------------------------------------------
(* The rows of the model *)

\* the keys and the cell values of the parsed rows, as strings
Cell ==
  [K_amount |->
     <<"a", "m", "o", "u", "n", "t">>,
   K_Date |->
     <<"D", "a", "t", "e">>,
   K_Description |->
     <<"D", "e", "s", "c", "r", "i", "p", "t", "i", "o", "n">>,
   K_Amount |->
     <<"A", "m", "o", "u", "n", "t">>,
   K_Type |->
     <<"T", "y", "p", "e">>,
   D_Jan05 |->
     <<"2", "0", "2", "4", "-", "0", "1", "-", "0", "5">>,
   D_Jan10 |->
     <<"2", "0", "2", "4", "-", "0", "1", "-", "1", "0">>,
   D_Jan20 |->
     <<"2", "0", "2", "4", "-", "0", "1", "-", "2", "0">>,
   D_Feb05 |->
     <<"2", "0", "2", "4", "-", "0", "2", "-", "0", "5">>,
   D_Feb10 |->
     <<"2", "0", "2", "4", "-", "0", "2", "-", "1", "0">>,
   D_Mar01 |->
     <<"2", "0", "2", "4", "-", "0", "3", "-", "0", "1">>,
   A_50000 |->
     <<"5", "0", "0", "0", "0">>,
   A_12000 |->
     <<"1", "2", "0", "0", "0">>,
   A_m500 |->
     <<"-", "5", "0", "0">>,
   A_1200_50 |->
     <<"1", ",", "2", "0", "0", ".", "5", "0">>,
   A_m250 |->
     <<"-", "2", "5", "0">>,
   A_0 |->
     <<"0">>,
   A_m75 |->
     <<"-", "7", "5">>,
   A_75 |->
     <<"7", "5">>,
   A_1000 |->
     <<"1", "0", "0", "0">>,
   A_49000 |->
     <<"4", "9", "0", "0", "0">>,
   A_37000 |->
     <<"3", "7", "0", "0", "0">>,
   A_15000 |->
     <<"1", "5", "0", "0", "0">>,
   T_PurchaseFee |->
     <<"p", "u", "r", "c", "h", "a", "s", "e", " ", "f", "e", "e">>,
   T_SalaryDeposit |->
     <<"s", "a", "l", "a", "r", "y", " ", "d", "e", "p", "o", "s", "i", "t">>,
   T_SalaryCredit |->
     <<"S", "a", "l", "a", "r", "y", " ", "c", "r", "e", "d", "i", "t">>,
   T_CardPaymentFee |->
     <<"C", "a", "r", "d", " ", "P", "a", "y", "m", "e", "n", "t", " ", "f", "e", "e">>,
   T_InterestCharge |->
     <<"I", "n", "t", "e", "r", "e", "s", "t", " ", "c", "h", "a", "r", "g", "e">>,
   T_Groceries |->
     <<"G", "r", "o", "c", "e", "r", "i", "e", "s">>,
   T_Debit |->
     <<"D", "e", "b", "i", "t">>,
   T_Salary |->
     <<"S", "a", "l", "a", "r", "y">>,
   T_LoanDeposit |->
     <<"L", "o", "a", "n", " ", "d", "e", "p", "o", "s", "i", "t">>,
   T_RentPayment |->
     <<"R", "e", "n", "t", " ", "p", "a", "y", "m", "e", "n", "t">>,
   T_BonusIncome |->
     <<"B", "o", "n", "u", "s", " ", "i", "n", "c", "o", "m", "e">>,
   T_LoanEmi |->
     <<"L", "o", "a", "n", " ", "E", "M", "I">>,
   A_74_5 |->
     <<"7", "4", ".", "5">>,
   K_Debit |->
     <<"D", "e", "b", "i", "t">>,
   K_Balance |->
     <<"B", "a", "l", "a", "n", "c", "e">>,
   K_PostingDate |->
     <<"P", "o", "s", "t", "i", "n", "g", " ", "D", "a", "t", "e">>]

\* a row of a statement whose type column holds the canonical credit/debit
\* token (the rows parsePDF and parseImage return have this shape), with or
\* without a description column
DeclaredRow(date, description, amount, type) ==
  IF description = <<>>
  THEN << <<Str.date, date>>, <<Cell.K_amount, amount>>, <<Str.type, type>> >>
  ELSE << <<Str.date, date>>, <<Str.description, description>>,
          <<Cell.K_amount, amount>>, <<Str.type, type>> >>

\* a row of a spreadsheet with capitalised headers and no type column
StatementRow(date, description, amount) ==
  << <<Cell.K_Date, date>>, <<Cell.K_Description, description>>, <<Cell.K_Amount, amount>> >>

\* the rows of the model, by kind
Rows ==
  [Declared |->
     { DeclaredRow(Cell.D_Jan05, <<>>, Cell.A_50000, Str.credit),
       DeclaredRow(Cell.D_Jan10, <<>>, Cell.A_12000, Str.debit),
       DeclaredRow(Cell.D_Jan05, Cell.T_PurchaseFee, Cell.A_m500, Str.credit),
       DeclaredRow(Cell.D_Jan10, Cell.T_SalaryDeposit, Cell.A_12000, Str.debit) },
  \* da is <<date, amount>>: a dated positive amount with a thousands separator
  \* and a fraction, an undated negative amount, a dated zero amount
   Heuristic |->
     { StatementRow(da[1], description, da[2]) :
         description \in {Cell.T_SalaryCredit, Cell.T_CardPaymentFee,
                          Cell.T_InterestCharge, Cell.T_Groceries, Cell.T_LoanEmi},
         da \in { <<Cell.D_Feb10, Cell.A_1200_50>>, <<<<>>, Cell.A_m250>>,
                  <<Cell.D_Mar01, Cell.A_0>> } },
  \* rows with a header Type: the type is credit/debit up to the case of the
  \* header or of the value, or the row has both a Type and a type column
   Variant |->
     { << <<Cell.K_Date, Cell.D_Feb10>>, <<Cell.K_Type, Str.credit>>, <<Cell.K_Amount, Cell.A_m75>> >>,
       << <<Str.date, Cell.D_Feb10>>, <<Str.type, Cell.T_Debit>>, <<Cell.K_amount, Cell.A_75>> >>,
       << <<Cell.K_Type, Cell.T_CardPaymentFee>>, <<Str.type, Str.credit>>, <<Cell.K_amount, Cell.A_m75>> >>,
       << <<Cell.K_Type, Cell.T_SalaryCredit>>, <<Str.type, Str.debit>>, <<Cell.K_amount, Cell.A_75>> >> },
  \* a row whose description and rounded amount are those of a row of another
  \* date (the row of Variant with the type Debit and the amount 75); a
  \* row with a description column before a type column without keywords; a row
  \* with no amount and no date; a row with two date columns and three amount
  \* columns, where the column amount holds 0 and the column debit comes before
  \* the column balance, which is before it in amountColumns; a row whose type
  \* column is empty
   Edge |->
     { StatementRow(Cell.D_Feb05, Cell.T_Debit, Cell.A_74_5),
       << <<Cell.K_Description, Cell.T_SalaryCredit>>, <<Cell.K_Type, Cell.T_Groceries>>,
          <<Cell.K_Date, Cell.D_Feb10>>, <<Cell.K_Amount, Cell.A_m250>> >>,
       StatementRow(<<>>, Cell.T_Groceries, <<>>),
       << <<Cell.K_PostingDate, Cell.D_Mar01>>, <<Cell.K_Date, Cell.D_Feb10>>,
          <<Cell.K_Description, Cell.T_Groceries>>, <<Cell.K_Amount, Cell.A_0>>,
          <<Cell.K_Debit, Cell.A_74_5>>, <<Cell.K_Balance, Cell.A_75>> >>,
       << <<Cell.K_Type, <<>>>>, <<Cell.K_Description, Cell.T_SalaryCredit>>,
          <<Cell.K_Amount, Cell.A_75>> >> }]

RowPool == Rows.Declared \cup Rows.Heuristic \cup Rows.Variant \cup Rows.Edge

\* the rows of statements that span at most a month and a day
WindowPool ==
  { StatementRow(Cell.D_Jan20, Cell.T_Salary, Cell.A_1000),
    StatementRow(Cell.D_Feb05, Cell.T_LoanDeposit, Cell.A_49000),
    StatementRow(Cell.D_Jan20, Cell.T_Groceries, Cell.A_m500),
    StatementRow(Cell.D_Feb05, Cell.T_RentPayment, Cell.A_37000),
    StatementRow(<<>>, Cell.T_BonusIncome, Cell.A_15000),
    DeclaredRow(Cell.D_Jan05, <<>>, Cell.A_50000, Str.credit),
    DeclaredRow(Cell.D_Jan10, <<>>, Cell.A_12000, Str.debit) }

MaxRows == 2

MaxWindowRows == 4

\* the non-empty lists of at most max rows of pool
RowLists(pool, max) == UNION { [1..n -> pool] : n \in 1..max }

----------------------------------------------------------------------------
(* Specification of the pipeline: the rows the upload handler parsed are   *)
(* analysed, and the analysis is scored                                    *)

None == [none |-> TRUE]

\* the server after it started: nothing registered, stored or in flight
Idle ==
  /\ clock = 1
  /\ users = <<>>
  /\ applications = <<>>
  /\ uploads = {}
  /\ requests = <<>>
  /\ last = [op |-> "none", status |-> 0, token |-> None, body |-> None]

Init ==
  /\ data \in RowLists(RowPool, MaxRows)
  /\ analysis = None
  /\ eligibility = None
  /\ pc = "parsed"
  /\ Idle

\* const analysis = analyzeTransactions(data)
Analyze ==
  /\ pc = "parsed"
  /\ analysis' = analyzeTransactions(data)
  /\ pc' = "analyzed"
  /\ UNCHANGED <<data, eligibility, server>>

\* const eligibility = checkEligibility(analysis)
CheckEligibility ==
  /\ pc = "analyzed"
  /\ eligibility' = checkEligibility(analysis)
  /\ pc' = "checked"
  /\ UNCHANGED <<data, analysis, server>>

Next == Analyze \/ CheckEligibility

Spec == Init /\ [][Next]_vars

----------------------------------------------------------------------------
(* Specification of a second analysis: the transactions of the analysis    *)
(* are uploaded as rows                                                    *)

\* the strings of the two kinds
KindChars ==
  [income |-> <<"i", "n", "c", "o", "m", "e">>,
   expense |-> <<"e", "x", "p", "e", "n", "s", "e">>]

\* a transaction as a row: the object pushed to transactions, with its keys
\* in the order amount, type, description, date; the amount is a number,
\* which the amount loop turns into a string
AsRow(t) ==
  << <<Cell.K_amount, NumberToString(t.amount)>>, <<Str.type, KindChars[t.type]>>,
     <<Str.description, t.description>>, <<Str.date, t.date>> >>

\* analyzeTransactions(data) for data the transactions of the analysis
Reanalyze ==
  /\ pc = "analyzed"
  /\ data' = [i \in 1..Len(analysis.transactions) |-> AsRow(analysis.transactions[i])]
  /\ analysis' = analyzeTransactions(data')
  /\ pc' = "reanalyzed"
  /\ UNCHANGED <<eligibility, server>>

NextAgain == Analyze \/ Reanalyze

SpecAgain == Init /\ [][NextAgain]_vars

----------------------------------------------------------------------------
(* Specification of checkEligibility over analyses posted by a client *)

\* the values each field of a posted analysis is drawn from; they sit on and
\* around the thresholds of the nine rules
\* Totals pairs totalIncome with totalExpenses, Debt pairs
\* monthlyDebtObligations with averageMonthlyIncome
Posted ==
  [Totals |->
     { <<QI(0), QI(0)>>, <<QI(100000), QI(0)>>, <<QI(100000), QI(80000)>>, <<QI(100000), QI(95000)>>, <<QI(100000), QI(120000)>> },
   SavingsPerMonth |->
     { QI(-5000), QI(2000), QI(10000), QN(20001, 2), QI(38000) },
   SavingsRate |->
     { QI(0), QI(5), QN(11, 2), QI(10), QI(20) },
   IncomeConsistency |->
     { QI(0), QI(40), QI(60), QI(80) },
   SpendingVolatility |->
     { QI(0), QI(60), QI(80) },
   EmergencyBuffer |->
     { QI(0), QI(1), QI(3), QI(6) },
   BillRegularity |->
     { QI(50), QI(100) },
   AccountAge |->
     { QI(1), QI(6), QI(12) },
   Debt |->
     { <<QI(0), QI(100)>>, <<QI(20), QI(100)>>, <<QI(25), QI(100)>>, <<QI(50), QI(100)>>, <<QI(50), QI(0)>> }]

PostedAnalysis(tot, spm, sr, ic, sv, eb, br, age, debt) ==
  [totalIncome |-> tot[1], totalExpenses |-> tot[2],
   savingsPerMonth |-> spm, savingsRate |-> sr,
   incomeConsistency |-> ic, spendingVolatility |-> sv,
   emergencySavingsBuffer |-> eb, billPaymentRegularity |-> br,
   accountAgeMonths |-> age,
   monthlyDebtObligations |-> debt[1], averageMonthlyIncome |-> debt[2]]

InitElig ==
  /\ data = <<>>
  /\ \E tot \in Posted.Totals, spm \in Posted.SavingsPerMonth,
        sr \in Posted.SavingsRate, ic \in Posted.IncomeConsistency,
        sv \in Posted.SpendingVolatility, eb \in Posted.EmergencyBuffer,
        br \in Posted.BillRegularity, age \in Posted.AccountAge,
        debt \in Posted.Debt :
        analysis = PostedAnalysis(tot, spm, sr, ic, sv, eb, br, age, debt)
  /\ eligibility = None
  /\ pc = "analyzed"
  /\ Idle

NextElig == CheckEligibility

SpecElig == InitElig /\ [][NextElig]_vars

----------------------------------------------------------------------------
(* Specification of the pipeline over statements that span about a month  *)

InitWindow ==
  /\ data \in RowLists(WindowPool, MaxWindowRows)
  /\ analysis = None
  /\ eligibility = None
  /\ pc = "parsed"
  /\ Idle

SpecWindow == InitWindow /\ [][Next]_vars

----------------------------------------------------------------------------
(* Specification of the pipeline over the lists of a few rows of two       *)
(* months, for the comparison of a list with its permutations              *)

\* incomes and expenses of January and February, two of which make a
\* recurring pattern, and an undated expense with debt keywords
OrderPool ==
  { DeclaredRow(Cell.D_Jan05, <<>>, Cell.A_50000, Str.credit),
    DeclaredRow(Cell.D_Jan10, <<>>, Cell.A_12000, Str.debit),
    StatementRow(Cell.D_Feb10, Cell.T_SalaryCredit, Cell.A_1200_50),
    StatementRow(Cell.D_Feb05, Cell.T_Debit, Cell.A_74_5),
    << <<Str.date, Cell.D_Feb10>>, <<Str.type, Cell.T_Debit>>, <<Cell.K_amount, Cell.A_75>> >>,
    StatementRow(<<>>, Cell.T_LoanEmi, Cell.A_m250) }

MaxOrderRows == 3

InitOrder ==
  /\ data \in RowLists(OrderPool, MaxOrderRows)
  /\ analysis = None
  /\ eligibility = None
  /\ pc = "parsed"
  /\ Idle

SpecOrder == InitOrder /\ [][Next]_vars

----------------------------------------------------------------------------
(* Specification of a second run: time passes, and the rows that were      *)
(* analysed and scored are analysed and scored again; the rows are those   *)
(* of OrderPool                                                            *)

MaxClock == 2

\* a millisecond passes
Tick ==
  /\ clock < MaxClock
  /\ clock' = clock + 1
  /\ UNCHANGED <<data, analysis, eligibility, pc,
                 users, applications, uploads, requests, last>>

RunAgain ==
  /\ pc = "checked"
  /\ \E again \in {analyzeTransactions(data)} :
        last' = [analysis |-> again, eligibility |-> checkEligibility(again)]
  /\ pc' = "again"
  /\ UNCHANGED <<data, analysis, eligibility,
                 clock, users, applications, uploads, requests>>

NextTwice == Analyze \/ CheckEligibility \/ Tick \/ RunAgain

SpecTwice == InitOrder /\ [][NextTwice]_vars

----------------------------------------------------------------------------
(* Specification of the uploads.  A request is received (its token is      *)
(* verified, multer filters it by extension and stores the file), the      *)
(* file is read by the parser, and the handler finishes: analysis, removal *)
(* of the file and response.  The handler is suspended between the steps,  *)
(* so the steps of several requests interleave.  The files are CSV files,  *)
(* given as the rows csv-parser reads from them.                           *)

MaxUploads == 2

allowedTypes ==
  << <<".", "c", "s", "v">>,
     <<".", "x", "l", "s", "x">>,
     <<".", "x", "l", "s">>,
     <<".", "p", "d", "f">>,
     <<".", "j", "p", "g">>,
     <<".", "j", "p", "e", "g">>,
     <<".", "p", "n", "g">>,
     <<".", "g", "i", "f">>,
     <<".", "b", "m", "p">>,
     <<".", "w", "e", "b", "p">> >>

\* path.extname
ExtName(name) ==
  IF \E i \in 2..Len(name) : name[i] = "."
  THEN SubSeq(name, CHOOSE i \in 2..Len(name) :
                      name[i] = "." /\ \A j \in (i + 1)..Len(name) : name[j] # ".",
              Len(name))
  ELSE <<>>

\* hasData with a value of spaces taken for data
hasData_NotEmpty(row) == \E i \in 1..Len(row) : row[i][2] # <<>>

\* the callback of parseCSV on 'data' and the filter of parseExcel
hasData(row) ==
  \E i \in 1..Len(row) : row[i][2] # <<>> /\ Len(Trim(row[i][2])) > 0

parseCSV(rows) ==
  IF SelectSeq(rows, hasData) = <<>>
  THEN [data |-> <<>>,
        parseError |-> "CSV file appears to be empty or has no valid data rows"]
  ELSE [data |-> SelectSeq(rows, hasData), parseError |-> ""]

\* the status authenticateToken answers with, 0 when it calls next()
authenticateToken(token) ==
  IF token = None THEN 401
  ELSE IF ~token.signed THEN 403
  ELSE 0

\* jwt.sign: the token the server signs for a user; a token it has not
\* signed has signed = FALSE
Signed(user) == [signed |-> TRUE, id |-> user.id, email |-> user.email]

\* names of uploaded files
FileNames ==
  { <<"s", ".", "c", "s", "v">>,
    <<"s", ".", "t", "x", "t">> }

\* contents of uploaded files: a statement of two rows, a file of blank
\* rows, and a blank row before the row of a statement
FilePool ==
  { << StatementRow(Cell.D_Jan05, Cell.T_SalaryCredit, Cell.A_50000),
       StatementRow(Cell.D_Jan10, Cell.T_Groceries, Cell.A_m500) >>,
    << StatementRow(<<>>, <<" ">>, <<>>), StatementRow(<<" ", " ">>, <<>>, <<>>) >>,
    << StatementRow(<<>>, <<" ">>, <<>>),
       StatementRow(Cell.D_Feb05, Cell.T_Groceries, Cell.A_m250) >> }

Answer(q, status, error, result) ==
  [q EXCEPT !.stage = "done",
            !.response = [status |-> status, error |-> error, analysis |-> result]]

\* authenticateToken, then upload.single('statement'): fileFilter and
\* diskStorage, which writes the file under Date.now() + '-' + originalname
UploadReceive ==
  /\ Len(requests) < MaxUploads
  /\ \E token \in {None, [signed |-> FALSE, id |-> <<>>, email |-> <<>>], Signed([id |-> <<"1">>, email |-> <<"a">>])},
        name \in FileNames, rows \in FilePool :
       LET q == [stage |-> "stored", token |-> token, name |-> name, sent |-> rows,
                 path |-> NatToString(clock) \o <<"-">> \o name,
                 data |-> <<>>, parseError |-> "", analyzed |-> FALSE,
                 response |-> None]
       IN  IF authenticateToken(token) = 401
           THEN /\ requests' = Append(requests,
                     Answer([q EXCEPT !.path = <<>>], 401, "Access token required", None))
                /\ UNCHANGED uploads
           ELSE IF authenticateToken(token) = 403
           THEN /\ requests' = Append(requests,
                     Answer([q EXCEPT !.path = <<>>], 403, "Invalid or expired token", None))
                /\ UNCHANGED uploads
           ELSE IF \A i \in 1..Len(allowedTypes) :
                     allowedTypes[i] # ToLowerCase(ExtName(name))
           THEN /\ requests' = Append(requests,
                     Answer([q EXCEPT !.path = <<>>], 400, "File type not allowed", None))
                /\ UNCHANGED uploads
           ELSE /\ requests' = Append(requests, q)
                /\ uploads' = { f \in uploads : f.path # q.path }
                                \cup { [path |-> q.path, rows |-> rows,
                                        writer |-> Len(requests) + 1] }
  /\ UNCHANGED <<data, analysis, eligibility, pc, clock, users, applications, last>>

\* data = await parseCSV(filePath): the stream reads the file that is at the
\* path now, and fails when there is none
UploadParse ==
  /\ \E r \in 1..Len(requests) :
       /\ requests[r].stage = "stored"
       /\ IF \E f \in uploads : f.path = requests[r].path
          THEN \E f \in uploads :
                 /\ f.path = requests[r].path
                 /\ requests' = [requests EXCEPT ![r] = [requests[r] EXCEPT
                               !.stage = "parsed",
                               !.data = parseCSV(f.rows).data,
                               !.parseError = parseCSV(f.rows).parseError]]
          ELSE requests' = [requests EXCEPT ![r] = [requests[r] EXCEPT
                          !.stage = "parsed",
                          !.parseError = "ENOENT: no such file or directory"]]
  /\ UNCHANGED <<data, analysis, eligibility, pc,
                 clock, users, applications, uploads, last>>

\* UploadFinish with the file left in place when no row was parsed
UploadFinish_KeepFile ==
  /\ \E r \in 1..Len(requests) :
       /\ requests[r].stage = "parsed"
       /\ uploads' = IF Len(requests[r].data) = 0 THEN uploads
                     ELSE { f \in uploads : f.path # requests[r].path }
       /\ IF \A f \in uploads : f.path # requests[r].path
          THEN requests' = [requests EXCEPT ![r] = Answer([requests[r] EXCEPT
                                 !.analyzed = Len(requests[r].data) # 0],
                              500, "ENOENT: no such file or directory", None)]
          ELSE IF Len(requests[r].data) = 0
          THEN requests' = [requests EXCEPT ![r] = Answer(requests[r], 400,
                              IF requests[r].parseError # ""
                              THEN "Failed to parse file"
                              ELSE "File is empty or could not be parsed", None)]
          ELSE requests' = [requests EXCEPT ![r] = Answer([requests[r] EXCEPT !.analyzed = TRUE], 200, "",
                              analyzeTransactions(requests[r].data))]
  /\ UNCHANGED <<data, analysis, eligibility, pc, clock, users, applications, last>>

\* the rest of the handler: fs.unlinkSync throws when the file is not there,
\* and the catch answers 500
UploadFinish ==
  /\ \E r \in 1..Len(requests) :
       /\ requests[r].stage = "parsed"
       /\ uploads' = { f \in uploads : f.path # requests[r].path }
       /\ IF \A f \in uploads : f.path # requests[r].path
          THEN requests' = [requests EXCEPT ![r] = Answer([requests[r] EXCEPT
                                 !.analyzed = Len(requests[r].data) # 0],
                              500, "ENOENT: no such file or directory", None)]
          ELSE IF Len(requests[r].data) = 0
          THEN requests' = [requests EXCEPT ![r] = Answer(requests[r], 400,
                              IF requests[r].parseError # ""
                              THEN "Failed to parse file"
                              ELSE "File is empty or could not be parsed", None)]
          ELSE requests' = [requests EXCEPT ![r] = Answer([requests[r] EXCEPT !.analyzed = TRUE], 200, "",
                              analyzeTransactions(requests[r].data))]
  /\ UNCHANGED <<data, analysis, eligibility, pc, clock, users, applications, last>>

\* the server with no statement in the pipeline
InitServer ==
  /\ data = <<>>
  /\ analysis = None
  /\ eligibility = None
  /\ pc = "serving"
  /\ Idle

NextUploads == Tick \/ UploadReceive \/ UploadParse \/ UploadFinish

SpecUploads == InitServer /\ [][NextUploads]_vars

\* the uploads one after the other: a request is received when the
\* requests before it are answered
NextUpload ==
  \/ Tick
  \/ (UploadReceive /\ \A r \in 1..Len(requests) : requests[r].stage = "done")
  \/ UploadParse
  \/ UploadFinish

SpecUpload == InitServer /\ [][NextUpload]_vars

----------------------------------------------------------------------------
(* Specification of the accounts and the applications: register, login,    *)
(* check-eligibility and history.  The register handler is suspended at    *)
(* await bcrypt.hash, between the search of the email and the insertion of *)
(* the user; the other handlers change the lists in one step.  An email or *)
(* a password is a string of one letter, the hash of a password is the     *)
(* password in a record, and personalInfo is left out of the application.  *)

MaxUsers == 2

MaxApplications == 1

\* res.json: the response of a handler, with the token of the request
Respond(op, status, token, body) ==
  last' = [op |-> op, status |-> status, token |-> token, body |-> body]

\* the tokens a client may send: none, one the server has not signed, and
\* the one of a registered user
Tokens ==
  {None, [signed |-> FALSE, id |-> <<>>, email |-> <<>>]}
    \cup { Signed(users[u]) : u \in 1..Len(users) }

\* POST /api/register up to await bcrypt.hash(password, 10)
RegisterBegin ==
  /\ Len(users) + Len(requests) < MaxUsers
  /\ \E email \in {<<>>, <<"a">>, <<"b">>} :
       IF email = <<>>
       THEN /\ Respond("register", 400, None, [error |-> "Email and password are required"])
            /\ UNCHANGED requests
       ELSE IF \E u \in 1..Len(users) : users[u].email = email
       THEN /\ Respond("register", 400, None, [error |-> "User already exists"])
            /\ UNCHANGED requests
       ELSE /\ requests' = Append(requests,
                 [stage |-> "hashing", email |-> email, password |-> <<"p">>])
            /\ UNCHANGED last
  /\ UNCHANGED <<data, analysis, eligibility, pc, clock, users, applications, uploads>>

\* POST /api/register from the hash on: the user is created and pushed, and
\* the request is answered
RegisterEnd ==
  /\ \E r \in 1..Len(requests) :
       /\ requests[r].stage = "hashing"
       /\ \E user \in { [id |-> NatToString(clock), email |-> requests[r].email,
                          password |-> [hash |-> requests[r].password],
                          name |-> requests[r].email] } :
            /\ users' = Append(users, user)
            /\ requests' = [i \in 1..(Len(requests) - 1) |->
                              IF i < r THEN requests[i] ELSE requests[i + 1]]
            /\ Respond("register", 201, Signed(user),
                       [message |-> "User registered successfully"])
  /\ UNCHANGED <<data, analysis, eligibility, pc, clock, applications, uploads>>

\* POST /api/login: users.find gives the first user of the email
Login ==
  /\ \E email \in {<<"a">>, <<"b">>}, password \in {<<"p">>, <<"q">>} :
       IF \A u \in 1..Len(users) : users[u].email # email
       THEN Respond("login", 401, None, [error |-> "Invalid credentials"])
       ELSE \E u \in 1..Len(users) :
              /\ users[u].email = email
              /\ \A v \in 1..(u - 1) : users[v].email # email
              /\ IF users[u].password # [hash |-> password]
                 THEN Respond("login", 401, None, [error |-> "Invalid credentials"])
                 ELSE Respond("login", 200, Signed(users[u]),
                              [message |-> "Login successful"])
  /\ UNCHANGED <<data, analysis, eligibility, pc,
                 clock, users, applications, uploads, requests>>

\* the analyses a client posts: none, one that is eligible, one that is not
PostedPool ==
  { None,
    PostedAnalysis(<<QI(100000), QI(0)>>, QI(38000), QI(20), QI(80), QI(80),
                   QI(6), QI(100), QI(12), <<QI(0), QI(100)>>),
    PostedAnalysis(<<QI(100000), QI(120000)>>, QI(-5000), QI(0), QI(40), QI(60),
                   QI(1), QI(50), QI(1), <<QI(50), QI(100)>>) }

\* PostCheckEligibility with every application approved
PostCheckEligibility_NoCheck ==
  /\ Len(applications) < MaxApplications
  /\ \E token \in Tokens, posted \in PostedPool :
       IF authenticateToken(token) # 0
       THEN /\ Respond("check", authenticateToken(token), token,
                    [error |-> IF token = None THEN "Access token required"
                               ELSE "Invalid or expired token"])
            /\ UNCHANGED applications
       ELSE IF posted = None
       THEN /\ Respond("check", 400, token, [error |-> "Analysis data is required"])
            /\ UNCHANGED applications
       ELSE /\ applications' = Append(applications,
                 [id |-> NatToString(clock),
                  userId |-> token.id,
                  analysis |-> posted,
                  eligibility |-> checkEligibility(posted),
                  status |-> "approved",
                  createdAt |-> clock,
                  by |-> token.email])
            /\ Respond("check", 200, token,
                       [eligibility |-> checkEligibility(posted),
                        applicationId |-> NatToString(clock)])
  /\ UNCHANGED <<data, analysis, eligibility, pc, clock, users, uploads, requests>>

\* POST /api/check-eligibility
PostCheckEligibility ==
  /\ Len(applications) < MaxApplications
  /\ \E token \in Tokens, posted \in PostedPool :
       IF authenticateToken(token) # 0
       THEN /\ Respond("check", authenticateToken(token), token,
                    [error |-> IF token = None THEN "Access token required"
                               ELSE "Invalid or expired token"])
            /\ UNCHANGED applications
       ELSE IF posted = None
       THEN /\ Respond("check", 400, token, [error |-> "Analysis data is required"])
            /\ UNCHANGED applications
       ELSE /\ applications' = Append(applications,
                 [id |-> NatToString(clock),
                  userId |-> token.id,
                  analysis |-> posted,
                  eligibility |-> checkEligibility(posted),
                  status |-> IF checkEligibility(posted).eligible
                             THEN "approved" ELSE "rejected",
                  createdAt |-> clock,
                  by |-> token.email])
            /\ Respond("check", 200, token,
                       [eligibility |-> checkEligibility(posted),
                        applicationId |-> NatToString(clock)])
  /\ UNCHANGED <<data, analysis, eligibility, pc, clock, users, uploads, requests>>

\* GET /api/history: the applications of req.user.id, the latest first
GetHistory ==
  /\ \E token \in Tokens :
       IF authenticateToken(token) # 0
       THEN Respond("history", authenticateToken(token), token,
                    [error |-> IF token = None THEN "Access token required"
                               ELSE "Invalid or expired token"])
       ELSE \E mine \in {SelectSeq(applications, LAMBDA a : a.userId = token.id)} :
              \E order \in { p \in Permutations(1..Len(mine)) :
                              \A i, j \in 1..Len(mine) :
                                i < j => \/ mine[p[i]].createdAt > mine[p[j]].createdAt
                                         \/ /\ mine[p[i]].createdAt = mine[p[j]].createdAt
                                            /\ p[i] < p[j] } :
                Respond("history", 200, token, [applications |->
                        [i \in 1..Len(mine) |->
                           [id |-> mine[order[i]].id,
                            status |-> mine[order[i]].status,
                            score |-> mine[order[i]].eligibility.score,
                            eligible |-> mine[order[i]].eligibility.eligible,
                            recommendedLoanAmount |->
                              mine[order[i]].eligibility.recommendedLoanAmount,
                            createdAt |-> mine[order[i]].createdAt,
                            by |-> mine[order[i]].by]]])
  /\ UNCHANGED <<data, analysis, eligibility, pc,
                 clock, users, applications, uploads, requests>>

\* GET /api/history/:id: the first application of the id and of req.user.id
GetApplication ==
  /\ \E token \in Tokens, id \in { NatToString(t) : t \in 1..MaxClock } :
       IF authenticateToken(token) # 0
       THEN Respond("application", authenticateToken(token), token,
                    [error |-> IF token = None THEN "Access token required"
                               ELSE "Invalid or expired token"])
       ELSE IF \A a \in 1..Len(applications) :
                 ~(applications[a].id = id /\ applications[a].userId = token.id)
       THEN Respond("application", 404, token, [error |-> "Application not found"])
       ELSE \E a \in 1..Len(applications) :
              /\ applications[a].id = id /\ applications[a].userId = token.id
              /\ \A b \in 1..(a - 1) :
                   ~(applications[b].id = id /\ applications[b].userId = token.id)
              /\ Respond("application", 200, token, [application |-> applications[a]])
  /\ UNCHANGED <<data, analysis, eligibility, pc,
                 clock, users, applications, uploads, requests>>

NextAccounts ==
  \/ Tick
  \/ RegisterBegin
  \/ RegisterEnd
  \/ Login
  \/ PostCheckEligibility
  \/ GetHistory
  \/ GetApplication

SpecAccounts == InitServer /\ [][NextAccounts]_vars

-----------------------------------------------------------------------------
(* parseImage: the text recognized in an image, read line by line *)

MaxLines == 2

\* datePattern = /(\d{1,2}[\/\-]\d{1,2})/: the first match in line, <<>> when
\* there is none
datePattern(line) ==
  LET D(i) == i <= Len(line) /\ line[i] \in Digits
      S(i) == i <= Len(line) /\ line[i] \in {"/", "-"}
      size(i) == IF D(i) /\ D(i + 1) /\ S(i + 2) /\ D(i + 3)
                 THEN (IF D(i + 4) THEN 5 ELSE 4)
                 ELSE IF D(i) /\ S(i + 1) /\ D(i + 2)
                 THEN (IF D(i + 3) THEN 4 ELSE 3)
                 ELSE 0
      starts == {i \in 1..Len(line) : size(i) > 0}
  IN  IF starts = {} THEN <<>>
      ELSE LET i == CHOOSE k \in starts : \A j \in starts : k <= j
           IN  SubSeq(line, i, i + size(i) - 1)

\* amountPattern = /([\d,]+\.?\d*)/g: the matches in line from position i on,
\* each as <<position, text>>
RECURSIVE amountPattern(_, _)
amountPattern(line, i) ==
  IF i > Len(line) THEN <<>>
  ELSE IF line[i] \notin Digits \cup {","} THEN amountPattern(line, i + 1)
  ELSE LET run == CHOOSE k \in 1..(Len(line) - i + 1) :
                    /\ \A j \in i..(i + k - 1) : line[j] \in Digits \cup {","}
                    /\ i + k > Len(line) \/ line[i + k] \notin Digits \cup {","}
           dot == i + run <= Len(line) /\ line[i + run] = "."
           end == IF dot
                  THEN i + run + 1 + DigitRun(SubSeq(line, i + run + 1, Len(line)))
                  ELSE i + run
       IN  << <<i, SubSeq(line, i, end - 1)>> >> \o amountPattern(line, end)

\* amounts.map(amt => parseFloat(amt.replace(/,/g, ''))).filter(amt =>
\* !isNaN(amt) && amt > 0)
cleanAmounts(amounts) ==
  SelectSeq([k \in 1..Len(amounts) |-> ParseFloat(StripCommas(amounts[k][2]))],
            LAMBDA amt : amt # NaN /\ QGt(amt, QZero))

\* s.replace(sub, ''): s without the first occurrence of sub
Without(s, sub) ==
  IF ~Includes(s, sub) THEN s
  ELSE LET cut(i) == SubSeq(s, 1, i - 1) \o SubSeq(s, i + Len(sub), Len(s))
       IN  cut(CHOOSE k \in 1..Len(s) :
                 /\ SubSeq(s, k, k + Len(sub) - 1) = sub
                 /\ \A j \in 1..(k - 1) : SubSeq(s, j, j + Len(sub) - 1) # sub)

\* the description of a row: s with the first occurrence of each of subs
\* removed in turn and trimmed, then every run of spaces made one space
RECURSIVE description(_, _)
description(s, subs) ==
  IF subs = <<>>
  THEN LET text(kept) == Trim([i \in 1..Len(kept) |-> kept[i][1]])
       IN  text(SelectSeq([i \in 1..Len(s) |->
                             IF i > 1 /\ s[i] = " " /\ s[i - 1] = " "
                             THEN <<>> ELSE <<s[i]>>],
                          LAMBDA c : c # <<>>))
  ELSE description(Trim(Without(s, Head(subs))), Tail(subs))

\* lines of recognized text: a header with both columns, rows with a date and
\* no amount, with a date whose second part is zero and one amount, with three
\* amounts, a blank line and a line shorter than ten characters
LinePool ==
  { <<"D", "a", "t", "e", " ", "D", "e", "b", "i", "t", " ", "C", "r", "e", "d", "i", "t">>,
    <<"1", "0", "/", "0", "2", " ", "S", "a", "l", "a", "r", "y">>,
    <<"1", "0", "/", "0", "0", " ", "D", "e", "p", "o", "s", "i", "t", " ", "5", "0", "0">>,
    <<"1", "1", "/", "0", "9", " ", "C", "a", "r", "d", " ", "p", "a", "y", "m", "e", "n", "t", " ", "c", "r", "e", "d", "i", "t">>,
    <<"1", "/", "2", " ", "P", "u", "r", "c", "h", "a", "s", "e", " ", "4", "0", ".", "5", " ", "6", "0", " ", "9", "0", "0">>,
    <<" ", " ">>,
    <<"1", "/", "2", " ", "x", " ", "5">> }

\* worker.recognize has returned the text of the image
InitImage ==
  /\ data = <<>>
  /\ analysis = None
  /\ eligibility = None
  /\ pc = "recognized"
  /\ clock = 1
  /\ users = <<>>
  /\ applications = <<>>
  /\ uploads = {}
  /\ last = [op |-> "none", status |-> 0, token |-> None, body |-> None]
  /\ \E n \in 1..MaxLines : \E text \in [1..n -> LinePool] :
       requests = <<[lines |-> text, i |-> 0, columns |-> FALSE,
                     transactions |-> <<>>]>>

\* the text is split into its lines that are not blank and the first ten are
\* searched for the header; i is the line the rows start at
ScanHeader ==
  /\ pc = "recognized"
  /\ LET lines == SelectSeq(requests[1].lines, LAMBDA line : Len(Trim(line)) > 0)
         n == IF Len(lines) < 10 THEN Len(lines) ELSE 10
         debit(i) == Includes(ToLowerCase(lines[i]), Str.debit)
         credit(i) == Includes(ToLowerCase(lines[i]), Str.credit)
         both == {i \in 1..n : debit(i) /\ credit(i)}
     IN  IF lines = <<>>
         THEN /\ pc' = "failed"
              /\ requests' = requests
         ELSE /\ pc' = "rows"
              /\ requests' =
                   <<[lines |-> lines,
                      i |-> IF both = {} THEN 1
                            ELSE 1 + CHOOSE k \in both : \A j \in both : k <= j,
                      columns |-> \/ both # {}
                                  \/ /\ \E i \in 1..n : debit(i)
                                     /\ \E i \in 1..n : credit(i),
                      transactions |-> <<>>]>>
  /\ UNCHANGED <<data, analysis, eligibility, clock, users, applications, uploads, last>>

\* one turn of the loop over the rows: the line is skipped, or its debit and
\* its credit amount are found and pushed when positive
ParseRow ==
  /\ pc = "rows"
  /\ requests[1].i <= Len(requests[1].lines)
  /\ LET line == Trim(requests[1].lines[requests[1].i])
         low == ToLowerCase(line)
         date == datePattern(line)
         amounts == amountPattern(line, 1)
         clean == cleanAmounts(amounts)
         desc == description(line, <<date>> \o [k \in 1..Len(amounts) |-> amounts[k][2]])
         hit(keywords, k) == \E j \in 1..k : Includes(ToLowerCase(desc), keywords[j])
         debit == [debitAmount |-> clean[1], creditAmount |-> QZero]
         credit == [debitAmount |-> QZero, creditAmount |-> clean[1]]
         found == IF requests[1].columns /\ Len(clean) >= 2
                  THEN IF Len(clean) >= 3
                       THEN [debitAmount |-> clean[Len(clean) - 2],
                             creditAmount |-> clean[Len(clean) - 1]]
                       ELSE IF hit(expenseKeywords, 4) THEN debit
                       ELSE IF hit(incomeKeywords, 3) THEN credit
                       ELSE debit
                  ELSE IF hit(expenseKeywords, 6) THEN debit
                  ELSE IF hit(incomeKeywords, 5) THEN credit
                  ELSE debit
         pushed(amount, type) ==
           IF QGt(amount, QZero)
           THEN <<DeclaredRow(date, IF desc = <<>> THEN Str.Transaction ELSE desc,
                              NumberToString(amount), type)>>
           ELSE <<>>
     IN  requests' =
           <<[requests[1] EXCEPT
                !.i = @ + 1,
                !.transactions =
                  IF \/ /\ Includes(low, Str.date)
                        /\ \/ Includes(low, Str.description)
                           \/ Includes(low, Str.debit)
                           \/ Includes(low, Str.credit)
                     \/ date = <<>>
                     \/ Len(line) < 10
                     \/ clean = <<>>
                  THEN @
                  ELSE @ \o pushed(found.debitAmount, Str.debit)
                         \o pushed(found.creditAmount, Str.credit)]>>
  /\ UNCHANGED <<data, analysis, eligibility, pc, clock, users, applications, uploads, last>>

\* the end of the loop: when no row gave a transaction, every line with a
\* date and a positive first amount gives one, credit by the keywords of the
\* line and debit otherwise; the transactions are returned
FinishImage ==
  /\ pc = "rows"
  /\ requests[1].i > Len(requests[1].lines)
  /\ pc' = "read"
  /\ LET first(line) == ParseFloat(StripCommas(amountPattern(line, 1)[1][2]))
         \* s.replace(amountPattern, ''), m being the matches in s
         uncovered(s, m) ==
           SelectSeq([i \in 1..Len(s) |->
                        IF \E k \in 1..Len(m) : m[k][1] <= i /\ i < m[k][1] + Len(m[k][2])
                        THEN <<>> ELSE <<s[i]>>],
                     LAMBDA c : c # <<>>)
         text(s) == Trim([i \in 1..Len(s) |-> s[i][1]])
         undated(s) == text(uncovered(s, amountPattern(s, 1)))
         simple(line) == undated(Without(line, datePattern(line)))
         row(line, desc) ==
           DeclaredRow(datePattern(line),
                       IF desc = <<>> THEN Str.Transaction ELSE desc,
                       NumberToString(first(line)),
                       IF \E j \in 1..4 : Includes(ToLowerCase(line), incomeKeywords[j])
                       THEN Str.credit ELSE Str.debit)
         rows(lines) ==
           SelectSeq(lines, LAMBDA line : /\ datePattern(line) # <<>>
                                          /\ amountPattern(line, 1) # <<>>
                                          /\ first(line) # NaN
                                          /\ QGt(first(line), QZero))
         returned(found) == [k \in 1..Len(found) |-> row(found[k], simple(found[k]))]
     IN  data' = IF requests[1].transactions # <<>>
                 THEN requests[1].transactions
                 ELSE returned(rows([k \in 1..Len(requests[1].lines) |->
                                       Trim(requests[1].lines[k])]))
  /\ UNCHANGED <<analysis, eligibility, server>>

SpecImage == InitImage /\ [][ScanHeader \/ ParseRow \/ FinishImage]_vars

----------------------------------------------------------------------------
(* Properties of checkEligibility, checked under SpecElig *)

\* C1: eligible is true if and only if the final clamped score is >= 60,
\* savingsPerMonth > 10000, totalIncome > totalExpenses and savingsRate > 5
\* all hold.
C1_EligibleIffAllFour ==
  pc = "checked" =>
    (eligibility.eligible <=>
       /\ eligibility.score >= 60
       /\ QGt(analysis.savingsPerMonth, QI(10000))
       /\ QGt(analysis.totalIncome, analysis.totalExpenses)
       /\ QGt(analysis.savingsRate, QI(5)))

\* an analysis that meets every condition but the savings rate is not eligible
C1_Witness ==
  /\ pc = "checked"
  /\ eligibility.score >= 60
  /\ QGt(analysis.savingsPerMonth, QI(10000))
  /\ QGt(analysis.totalIncome, analysis.totalExpenses)
  /\ analysis.savingsRate = QI(5)
  /\ ~eligibility.eligible

\* C2: the score is clamp(0, 100, sum of the nine rule contributions), the
\* debt penalty being applied to the unclamped running total, and it is an
\* integer in 0..100.
C2_ScoreIsClampedSum ==
  pc = "checked" =>
    LET a == analysis
        incomeAhead == QGt(a.totalIncome, a.totalExpenses)
        r1 == IF ~incomeAhead THEN 0
              ELSE IF QLt(QMul(a.totalExpenses, QI(100)), QMul(a.totalIncome, QI(70)))
              THEN 35 ELSE 30
        r2 == IF QGt(a.savingsPerMonth, QI(10000)) THEN 25
              ELSE IF QGt(a.savingsPerMonth, QZero) THEN 10 ELSE 0
        r3 == IF QGe(a.savingsRate, QI(20)) THEN 15
              ELSE IF QGe(a.savingsRate, QI(10)) THEN 10
              ELSE IF QGt(a.savingsRate, QZero) THEN 5 ELSE 0
        r4 == IF QGe(a.incomeConsistency, QI(80)) THEN 10
              ELSE IF QGe(a.incomeConsistency, QI(60)) THEN 7
              ELSE IF QGe(a.incomeConsistency, QI(40)) THEN 4 ELSE 0
        r5 == IF QGe(a.spendingVolatility, QI(80)) THEN 10
              ELSE IF QGe(a.spendingVolatility, QI(60)) THEN 7 ELSE 0
        r6 == IF QGe(a.emergencySavingsBuffer, QI(6)) THEN 10
              ELSE IF QGe(a.emergencySavingsBuffer, QI(3)) THEN 7
              ELSE IF QGt(a.emergencySavingsBuffer, QZero) THEN 4 ELSE 0
        r7 == IF QGe(a.billPaymentRegularity, QI(80)) THEN 5 ELSE 2
        r8 == IF QGe(a.accountAgeMonths, QI(12)) THEN 5
              ELSE IF QGe(a.accountAgeMonths, QI(6)) THEN 3 ELSE 0
        r9 == IF ~QGt(a.monthlyDebtObligations, QZero) THEN 0
              ELSE IF a.averageMonthlyIncome = QZero THEN -15
              ELSE IF QGt(QMul(a.monthlyDebtObligations, QI(100)),
                          QMul(a.averageMonthlyIncome, QI(40))) THEN -15
              ELSE IF QGt(QMul(a.monthlyDebtObligations, QI(100)),
                          QMul(a.averageMonthlyIncome, QI(20))) THEN -8
              ELSE 0
        total == r1 + r2 + r3 + r4 + r5 + r6 + r7 + r8 + r9
    IN  /\ eligibility.score =
             (IF total > 100 THEN 100 ELSE IF total < 0 THEN 0 ELSE total)
        /\ eligibility.score \in 0..100

\* every rule gives its highest contribution (115 in all) and the penalty is
\* 15: the score is 100
C2_Witness ==
  /\ pc = "checked"
  /\ analysis.totalIncome = QI(100000) /\ analysis.totalExpenses = QZero
  /\ analysis.savingsPerMonth = QI(38000)
  /\ analysis.savingsRate = QI(20)
  /\ analysis.incomeConsistency = QI(80)
  /\ analysis.spendingVolatility = QI(80)
  /\ analysis.emergencySavingsBuffer = QI(6)
  /\ analysis.billPaymentRegularity = QI(100)
  /\ analysis.accountAgeMonths = QI(12)
  /\ analysis.monthlyDebtObligations = QI(50)
  /\ analysis.averageMonthlyIncome = QI(100)
  /\ eligibility.score = 100

\* C3 as stated: recommendedLoanAmount is min(savingsPerMonth * 3 * (score /
\* 100), 100000) floored at 0 when eligible and 0 when not, and maxLoanAmount
\* is that same value whatever the eligibility.
C3_ReportsComputedAmount ==
  pc = "checked" =>
    LET computed == QMax(QZero,
                      QMin(QMul(QMul(analysis.savingsPerMonth, QI(3)),
                                QN(eligibility.score, 100)), QI(100000)))
    IN  /\ QI(eligibility.recommendedLoanAmount) =
             (IF eligibility.eligible THEN computed ELSE QZero)
        /\ QI(eligibility.maxLoanAmount) = computed

\* C3 (amended): recommendedLoanAmount is min(savingsPerMonth * 3 * (score /
\* 100), 100000) floored at 0 and rounded to the nearest integer when
\* eligible and 0 when not; maxLoanAmount is that same rounded value whatever
\* the eligibility; neither is negative nor above 100000.
C3_ReportsRoundedAmount ==
  pc = "checked" =>
    LET computed == QMax(QZero,
                      QMin(QMul(QMul(analysis.savingsPerMonth, QI(3)),
                                QN(eligibility.score, 100)), QI(100000)))
        rounded == (2 * computed.n + computed.d) \div (2 * computed.d)
    IN  /\ eligibility.recommendedLoanAmount =
             (IF eligibility.eligible THEN rounded ELSE 0)
        /\ eligibility.maxLoanAmount = rounded
        /\ eligibility.recommendedLoanAmount \in 0..100000
        /\ eligibility.maxLoanAmount \in 0..100000

\* an eligible applicant whose computed amount is not an integer
C3_Witness ==
  /\ pc = "checked"
  /\ eligibility.eligible
  /\ analysis.savingsPerMonth = QN(20001, 2)
  /\ QI(eligibility.recommendedLoanAmount) #
       QMul(QMul(analysis.savingsPerMonth, QI(3)), QN(eligibility.score, 100))
  /\ eligibility.recommendedLoanAmount \in 1..100000
  /\ eligibility.maxLoanAmount = eligibility.recommendedLoanAmount

\* C4: the risk tier is a function of the final score only: high below 40,
\* medium from 40 to 59, low from 60 to 79, very-low from 80.
C4_RiskTierOfScore ==
  pc = "checked" =>
    eligibility.riskLevel =
      (IF eligibility.score < 40 THEN "high"
       ELSE IF eligibility.score < 60 THEN "medium"
       ELSE IF eligibility.score < 80 THEN "low"
       ELSE "very-low")

\* a score on the boundary between medium and low
C4_Witness ==
  /\ pc = "checked"
  /\ eligibility.score = 60
  /\ eligibility.riskLevel = "low"

\* C5: the reasons are the strengths when eligible, else the warnings when
\* there are any, else the single generic message.
C5_Reasons ==
  pc = "checked" =>
    eligibility.reasons =
      (IF eligibility.eligible THEN eligibility.strengths
       ELSE IF eligibility.warnings # <<>> THEN eligibility.warnings
       ELSE <<"Insufficient criteria met">>)

\* an applicant who is not eligible and has both strengths and warnings gets
\* the warnings
C5_Witness ==
  /\ pc = "checked"
  /\ ~eligibility.eligible
  /\ eligibility.strengths # <<>>
  /\ eligibility.warnings # <<>>
  /\ eligibility.reasons = eligibility.warnings

----------------------------------------------------------------------------
(* Properties of the pipeline, checked under SpecWindow (C6) and Spec *)

C7_TotalsPartitionAmounts ==
  pc # "parsed" =>
    LET ts == analysis.transactions
        amounts == [i \in 1..Len(ts) |-> ts[i].amount]
        incomes == [i \in 1..Len(ts) |->
                      IF ts[i].type = "income" THEN ts[i].amount ELSE QZero]
        expenses == [i \in 1..Len(ts) |->
                       IF ts[i].type = "expense" THEN ts[i].amount ELSE QZero]
    IN  /\ analysis.transactionCount = Len(ts)
        /\ \A i \in 1..Len(ts) : ts[i].type \in {"income", "expense"}
        /\ analysis.totalIncome = QSum(incomes)
        /\ analysis.totalExpenses = QSum(expenses)
        /\ QAdd(analysis.totalIncome, analysis.totalExpenses) = QSum(amounts)

\* an income and an expense, the income coming from a negative source amount
C7_Witness ==
  /\ pc = "analyzed"
  /\ Len(data) = 2
  /\ QLt(Normalize(data[1]).amount, QZero)
  /\ analysis.transactions[1].type = "income"
  /\ analysis.transactions[2].type = "expense"
  /\ QGt(analysis.totalIncome, QZero)
  /\ QGt(analysis.totalExpenses, QZero)

\* C8: every transaction has an amount >= 0, whatever the sign of the source
\* amount and whichever rule classified it.
C8_AmountsNonNegative ==
  pc # "parsed" =>
    \A i \in 1..Len(analysis.transactions) :
       QGe(analysis.transactions[i].amount, QZero)

\* a negative source amount stored as its absolute value
C8_Witness ==
  /\ pc = "analyzed"
  /\ \E i \in 1..Len(data) :
        /\ QLt(Normalize(data[i]).amount, QZero)
        /\ analysis.transactions[i].amount = QNeg(Normalize(data[i]).amount)

\* C9: a row whose type is literally credit is an income and one whose type
\* is literally debit is an expense, whatever its keywords and the sign of its
\* amount; the rows {50000, credit} and {12000, debit} give totalIncome 50000,
\* totalExpenses 12000 and savings 38000.
C9_DeclaredTypeDecides ==
  pc # "parsed" =>
    /\ Len(analysis.transactions) = Len(data)
    /\ \A i \in 1..Len(data) :
          /\ Get(data[i], Str.type) = Str.credit
               => analysis.transactions[i].type = "income"
          /\ Get(data[i], Str.type) = Str.debit
               => analysis.transactions[i].type = "expense"
    /\ data = << DeclaredRow(Cell.D_Jan05, <<>>, Cell.A_50000, Str.credit),
                 DeclaredRow(Cell.D_Jan10, <<>>, Cell.A_12000, Str.debit) >>
         => /\ analysis.totalIncome = QI(50000)
            /\ analysis.totalExpenses = QI(12000)
            /\ analysis.savings = QI(38000)

\* a credit with a negative amount whose inspected text holds expense keywords
C9_Witness ==
  /\ pc = "analyzed"
  /\ \E i \in 1..Len(data) :
        LET n == Normalize(data[i])
        IN  /\ Get(data[i], Str.type) = Str.credit
            /\ isExpense(ToLowerCase(Or3(n.type, n.description, <<>>)))
            /\ QLt(n.amount, QZero)
            /\ analysis.transactions[i].type = "income"

\* C10: when the type is not literally credit/debit, a text with an expense
\* keyword and an income keyword gives an expense, whatever the sign of the
\* amount; a text with keywords of one family only gives the kind of that
\* family.
C10_ExpenseKeywordsFirst ==
  pc # "parsed" =>
    \A i \in 1..Len(data) :
       LET n == Normalize(data[i])
           text == ToLowerCase(Or3(n.type, n.description, <<>>))
           expenseWord == \E k \in 1..Len(expenseKeywords) :
                             Includes(text, expenseKeywords[k])
           incomeWord == \E k \in 1..Len(incomeKeywords) :
                            Includes(text, incomeKeywords[k])
       IN  Get(data[i], Str.type) \notin {Str.credit, Str.debit} =>
             /\ expenseWord => analysis.transactions[i].type = "expense"
             /\ (incomeWord /\ ~expenseWord)
                  => analysis.transactions[i].type = "income"

\* a positive amount whose text holds keywords of both families is an expense
C10_Witness ==
  /\ pc = "analyzed"
  /\ \E i \in 1..Len(data) :
        LET n == Normalize(data[i])
            text == ToLowerCase(Or3(n.type, n.description, <<>>))
        IN  /\ Get(data[i], Str.type) \notin {Str.credit, Str.debit}
            /\ isExpense(text) /\ isIncome(text)
            /\ QGt(n.amount, QZero)
            /\ analysis.transactions[i].type = "expense"

\* C11 as stated: when the type is not literally credit/debit, a keyword that
\* occurs in the type field or in the description field of the row is
\* detected: an expense keyword in either field gives an expense, an income
\* keyword in either field, with no expense keyword in either, an income.
C11_KeywordInEitherField ==
  pc # "parsed" =>
    \A i \in 1..Len(data) :
       LET keys == NormalizedKeys(data[i])
           text == ToLowerCase(ValueOf(data[i], keys, Str.type) \o <<" ">>
                               \o ValueOf(data[i], keys, Str.description))
       IN  Get(data[i], Str.type) \notin {Str.credit, Str.debit} =>
             /\ isExpense(text) => analysis.transactions[i].type = "expense"
             /\ (isIncome(text) /\ ~isExpense(text))
                  => analysis.transactions[i].type = "income"

\* C11 as amended: when the type is not literally credit/debit, the keywords
\* are looked for in one text only, the lower-cased value of the first column
\* of the type/description alias list that holds a non-empty value (or of the
\* first column whose name contains description, narration or particulars
\* when no alias does); the kind is expense when that text has an expense
\* keyword, else income when it has an income keyword, else it follows the
\* sign of the amount.
C11_KeywordInResolvedText ==
  pc # "parsed" =>
    \A i \in 1..Len(data) :
       LET keys == NormalizedKeys(data[i])
           present == { j \in 1..Len(typeColumns) :
                          ValueOf(data[i], keys, typeColumnsNormalized[j]) # <<>> }
           first == CHOOSE j \in present : \A k \in present : j <= k
           text == ToLowerCase(
                     IF present = {} THEN FallbackDescription(data[i])
                     ELSE ValueOf(data[i], keys, typeColumnsNormalized[first]))
           amount == Normalize(data[i]).amount
       IN  Get(data[i], Str.type) \notin {Str.credit, Str.debit} =>
             analysis.transactions[i].type =
               IF isExpense(text) THEN "expense"
               ELSE IF isIncome(text) THEN "income"
               ELSE IF QLt(amount, QZero) THEN "expense" ELSE "income"

\* a row whose description column holds income keywords and whose type
\* column, without keywords, comes first in the alias list: the negative
\* amount makes it an expense
C11_Witness ==
  /\ pc = "analyzed"
  /\ \E i \in 1..Len(data) :
        LET keys == NormalizedKeys(data[i])
        IN  /\ Get(data[i], Str.type) \notin {Str.credit, Str.debit}
            /\ isIncome(ToLowerCase(ValueOf(data[i], keys, Str.description)))
            /\ ValueOf(data[i], keys, Str.type) # <<>>
            /\ ~isIncome(ToLowerCase(ValueOf(data[i], keys, Str.type)))
            /\ ~isExpense(ToLowerCase(ValueOf(data[i], keys, Str.type)))
            /\ analysis.transactions[i].type = "expense"

\* C12: when the type is not literally credit/debit and the inspected text
\* has no expense and no income keyword, the kind follows the sign of the
\* amount alone: expense when amount < 0, income when amount >= 0.
C12_SignDecidesWithoutKeywords ==
  pc # "parsed" =>
    \A i \in 1..Len(data) :
       LET n == Normalize(data[i])
           text == ToLowerCase(Or3(n.type, n.description, <<>>))
       IN  (/\ Get(data[i], Str.type) \notin {Str.credit, Str.debit}
            /\ ~isExpense(text) /\ ~isIncome(text)) =>
             /\ QLt(n.amount, QZero) => analysis.transactions[i].type = "expense"
             /\ QGe(n.amount, QZero) => analysis.transactions[i].type = "income"

\* a list with a row without keywords whose amount is 0, an income, and one
\* whose amount is negative, an expense
C12_Witness ==
  /\ pc = "analyzed"
  /\ \E i, j \in 1..Len(data) :
        LET n == Normalize(data[i])
            m == Normalize(data[j])
        IN  /\ Get(data[i], Str.type) \notin {Str.credit, Str.debit}
            /\ Get(data[j], Str.type) \notin {Str.credit, Str.debit}
            /\ ~isExpense(ToLowerCase(Or3(n.type, n.description, <<>>)))
            /\ ~isIncome(ToLowerCase(Or3(n.type, n.description, <<>>)))
            /\ ~isExpense(ToLowerCase(Or3(m.type, m.description, <<>>)))
            /\ ~isIncome(ToLowerCase(Or3(m.type, m.description, <<>>)))
            /\ n.amount = QZero /\ analysis.transactions[i].type = "income"
            /\ QLt(m.amount, QZero) /\ analysis.transactions[j].type = "expense"

\* C13 as stated: a transaction produced by analyzeTransactions and fed back
\* to it as a row yields a transaction of the same kind, for income and for
\* expense transactions.
C13_KindKept ==
  pc = "reanalyzed" =>
    /\ Len(analysis.transactions) = Len(data)
    /\ \A i \in 1..Len(data) :
          KindChars[analysis.transactions[i].type] = Get(data[i], Str.type)

\* C13 as amended: a transaction produced by analyzeTransactions and fed back
\* to it as a row yields one transaction, with the same amount, and its kind
\* is income whatever the kind was: an income transaction keeps its kind, an
\* expense transaction does not.
C13_KindBecomesIncome ==
  pc = "reanalyzed" =>
    /\ Len(analysis.transactions) = Len(data)
    /\ \A i \in 1..Len(data) :
          /\ analysis.transactions[i].type = "income"
          /\ NumberToString(analysis.transactions[i].amount) = Get(data[i], Cell.K_amount)

\* an income and an expense transaction fed back, the expense one with a
\* fraction in its amount, both coming back as income
C13_Witness ==
  /\ pc = "reanalyzed"
  /\ \E i, j \in 1..Len(data) :
        /\ Get(data[i], Str.type) = KindChars["income"]
        /\ Get(data[j], Str.type) = KindChars["expense"]
        /\ Get(data[j], Cell.K_amount) = <<"7", "4", ".", "5">>
        /\ analysis.transactions[i].type = "income"
        /\ analysis.transactions[j].type = "income"

\* C14: a row for which no amount can be resolved (no amount column holds a
\* number and the scan of the other fields finds none) produces no
\* transaction: the transactions, transactionCount and the totals are those of
\* the other rows.
C14_UnresolvableRowsDropped ==
  pc # "parsed" =>
    LET unresolvable(row) ==
          /\ \A j \in 1..Len(amountColumns) :
                ParseAmount(ValueOf(row, NormalizedKeys(row),
                                    amountColumnsNormalized[j])) = NaN
          /\ FallbackAmount(row, 1) = QZero
        kept == SelectSeq(data, LAMBDA row : ~unresolvable(row))
    IN  /\ analysis.transactionCount = Len(kept)
        /\ Len(analysis.transactions) = Len(kept)
        /\ analysis.totalIncome = analyzeTransactions(kept).totalIncome
        /\ analysis.totalExpenses = analyzeTransactions(kept).totalExpenses

\* C15 as stated: the amount, the type/description and the date of a row are
\* those of the first alias of their list, in the order of the list and with
\* the headers compared lower-cased and trimmed, whose value is non-empty; no
\* later alias is consulted.
C15_FirstNonEmptyAlias ==
  pc # "parsed" =>
    \A i \in 1..Len(data) :
       LET keys == NormalizedKeys(data[i])
           value(cols, j) == ValueOf(data[i], keys, cols[j])
           present(cols) == { j \in 1..Len(cols) : value(cols, j) # <<>> }
           first(cols) == CHOOSE j \in present(cols) : \A k \in present(cols) : j <= k
           t == analysis.transactions[i]
       IN  /\ present(typeColumnsNormalized) # {} =>
                t.description =
                  ToLowerCase(value(typeColumnsNormalized, first(typeColumnsNormalized)))
           /\ present(dateColumnsNormalized) # {} =>
                t.date = value(dateColumnsNormalized, first(dateColumnsNormalized))
           /\ present(amountColumnsNormalized) # {} =>
                t.amount =
                  QAbs(ParseOrZero(value(amountColumnsNormalized,
                                         first(amountColumnsNormalized))))

\* C15 as amended: the type/description and the date of a row are those of
\* the first alias of their list whose value is non-empty, and no later alias
\* is consulted; the amount is that of the first alias of the amount list
\* whose value, commas removed, parses to a number other than 0: after a
\* non-empty value that parses to 0 or does not parse, the later aliases are
\* consulted.
C15_FirstUsableAlias ==
  pc # "parsed" =>
    \A i \in 1..Len(data) :
       LET keys == NormalizedKeys(data[i])
           value(cols, j) == ValueOf(data[i], keys, cols[j])
           present(cols) == { j \in 1..Len(cols) : value(cols, j) # <<>> }
           first(cols) == CHOOSE j \in present(cols) : \A k \in present(cols) : j <= k
           nonZero == { j \in present(amountColumnsNormalized) :
                          ParseOrZero(value(amountColumnsNormalized, j)) # QZero }
           firstNonZero == CHOOSE j \in nonZero : \A k \in nonZero : j <= k
           t == analysis.transactions[i]
       IN  /\ present(typeColumnsNormalized) # {} =>
                t.description =
                  ToLowerCase(value(typeColumnsNormalized, first(typeColumnsNormalized)))
           /\ present(dateColumnsNormalized) # {} =>
                t.date = value(dateColumnsNormalized, first(dateColumnsNormalized))
           /\ nonZero # {} =>
                t.amount =
                  QAbs(ParseOrZero(value(amountColumnsNormalized, firstNonZero)))

\* a row whose column amount holds 0, followed by a column debit with 74.5
\* and a column balance with 75, with a posting date column before its date
\* column: the amount is 75, that of the alias balance, and the date that of
\* the date column; and a row whose description column comes before its type
\* column: the description is the type
C15_Witness ==
  /\ pc = "analyzed"
  /\ \E i, j \in 1..Len(data) :
        /\ Get(data[i], Cell.K_Amount) = Cell.A_0
        /\ Get(data[i], Cell.K_Balance) = Cell.A_75
        /\ data[i][1] = <<Cell.K_PostingDate, Cell.D_Mar01>>
        /\ analysis.transactions[i].amount = QI(75)
        /\ analysis.transactions[i].date = Cell.D_Feb10
        /\ data[j][1][1] = Cell.K_Description
        /\ data[j][2][1] = Cell.K_Type
        /\ analysis.transactions[j].description = ToLowerCase(data[j][2][2])
        /\ data[j][1][2] # data[j][2][2]

C17_SpanAndAverages ==
  pc # "parsed" =>
    LET ts == analysis.transactions
        dated == { i \in 1..Len(ts) : NewDate(ts[i].date).valid }
        earliest == CHOOSE i \in dated :
                      \A j \in dated : NewDate(ts[i].date).time <= NewDate(ts[j].date).time
        latest == CHOOSE i \in dated :
                    \A j \in dated : NewDate(ts[j].date).time <= NewDate(ts[i].date).time
        between == NewDate(ts[latest].date).time - NewDate(ts[earliest].date).time
        days == analysis.dateRange.days
        months == analysis.accountAgeMonths
    IN  /\ days = IF dated = {} \/ between < 1 THEN 1 ELSE between
        /\ months = IF days > 30 THEN QN(days, 30) ELSE QI(1)
        /\ QMul(analysis.averageMonthlyIncome, months) = analysis.totalIncome
        /\ QMul(analysis.averageMonthlyExpenses, months) = analysis.totalExpenses

\* an income of 2024-01-05 and a transaction of 2024-03-01: 56 days, so that
\* the income is divided by 56/30 and not by the 2 months with transactions
C17_Witness ==
  /\ pc = "analyzed"
  /\ Len(data) = 2
  /\ analysis.transactions[1].date = Cell.D_Jan05
  /\ analysis.transactions[2].date = Cell.D_Mar01
  /\ analysis.dateRange.days = 56
  /\ Len(analysis.monthlyBreakdown) = 2
  /\ analysis.totalIncome = QI(50000)
  /\ analysis.averageMonthlyIncome = QN(50000 * 30, 56)
  /\ analysis.averageMonthlyIncome # QN(50000, 2)

\* C18: the monthly breakdown has one bucket for each calendar month of the
\* transactions whose date parses and no other; the income and the expenses
\* of a bucket are the sums of the amounts of the income and of the expense
\* transactions of its month; the transactions whose date does not parse are
\* in no bucket and count in the totals, so that the buckets add up to the
\* totals of the transactions whose date parses.
C18_MonthlyBuckets ==
  pc # "parsed" =>
    LET ts == analysis.transactions
        mb == analysis.monthlyBreakdown
        dated(t) == NewDate(t.date).valid
        months == { MonthKey(NewDate(ts[i].date)) :
                      i \in { j \in 1..Len(ts) : dated(ts[j]) } }
        sum(kind, in(_)) ==
          QSum([i \in 1..Len(ts) |->
                  IF ts[i].type = kind /\ in(ts[i]) THEN ts[i].amount ELSE QZero])
        inMonth(k, t) == dated(t) /\ MonthKey(NewDate(t.date)) = k
    IN  /\ Len(mb) = Cardinality(months)
        /\ { mb[b].month : b \in 1..Len(mb) } = months
        /\ \A b \in 1..Len(mb) :
              /\ mb[b].income = sum("income", LAMBDA t : inMonth(mb[b].month, t))
              /\ mb[b].expenses = sum("expense", LAMBDA t : inMonth(mb[b].month, t))
        /\ QSum([b \in 1..Len(mb) |-> mb[b].income]) = sum("income", dated)
        /\ QSum([b \in 1..Len(mb) |-> mb[b].expenses]) = sum("expense", dated)
        /\ analysis.totalIncome
             = QAdd(sum("income", dated), sum("income", LAMBDA t : ~dated(t)))
        /\ analysis.totalExpenses
             = QAdd(sum("expense", dated), sum("expense", LAMBDA t : ~dated(t)))

\* an income with a date and an income without one: one bucket, which holds
\* the first income only, and a total that holds both
C18_Witness ==
  /\ pc = "analyzed"
  /\ Len(data) = 2
  /\ NewDate(analysis.transactions[1].date).valid
  /\ ~NewDate(analysis.transactions[2].date).valid
  /\ analysis.transactions[1].type = "income"
  /\ analysis.transactions[2].type = "income"
  /\ QGt(analysis.transactions[2].amount, QZero)
  /\ Len(analysis.monthlyBreakdown) = 1
  /\ analysis.monthlyBreakdown[1].income = analysis.transactions[1].amount
  /\ QGt(analysis.totalIncome, analysis.monthlyBreakdown[1].income)

\* C19: detectRecurringPayments groups the transactions by their lower-cased
\* description and their amount rounded to the nearest integer, and returns
\* the groups of two members or more, each once and with the number of its
\* members; billPaymentRegularity is 100 when there is such a group and 50
\* when there is none. Two transactions of one description and one rounded
\* amount on different dates give one pattern of count 2 and a regularity
\* of 100.
C19_RecurringGroups ==
  pc # "parsed" =>
    LET ts == analysis.transactions
        ps == detectRecurringPayments(ts)
        nearest(a, r) == 2 * r * a.d - a.d <= 2 * a.n /\ 2 * a.n < 2 * r * a.d + a.d
        alike(t, u) == /\ ToLowerCase(t.description) = ToLowerCase(u.description)
                       /\ \E r \in {MathRound(t.amount)} :
                            nearest(t.amount, r) /\ nearest(u.amount, r)
        group(t) == { j \in 1..Len(ts) : alike(t, ts[j]) }
    IN  /\ \A k \in 1..Len(ps) :
              /\ ps[k].count >= 2
              /\ ps[k].count = Cardinality(group(ps[k]))
              /\ \A l \in 1..Len(ps) : alike(ps[k], ps[l]) => k = l
        /\ \A i \in 1..Len(ts) :
              Cardinality(group(ts[i])) >= 2
                => \E k \in 1..Len(ps) : alike(ps[k], ts[i])
        /\ analysis.billPaymentRegularity
             = IF \E i \in 1..Len(ts) : Cardinality(group(ts[i])) >= 2
               THEN QI(100) ELSE QI(50)
        /\ ( /\ Len(ts) = 2
             /\ alike(ts[1], ts[2])
             /\ ts[1].date # ts[2].date )
             => /\ Len(ps) = 1
                /\ ps[1].count = 2
                /\ analysis.billPaymentRegularity = QI(100)

\* "Debit" of 74.5 on 5 February and "Debit" of 75 on 10 February: the
\* amounts differ and round to the same integer, one pattern of count 2
C19_Witness ==
  /\ pc = "analyzed"
  /\ Len(analysis.transactions) = 2
  /\ analysis.transactions[1].amount # analysis.transactions[2].amount
  /\ analysis.transactions[1].date # analysis.transactions[2].date
  /\ NewDate(analysis.transactions[1].date).valid
  /\ NewDate(analysis.transactions[2].date).valid
  /\ Len(detectRecurringPayments(analysis.transactions)) = 1
  /\ detectRecurringPayments(analysis.transactions)[1].count = 2
  /\ analysis.billPaymentRegularity = QI(100)

\* C20: totalDebtObligations is the sum of the amounts of the transactions
\* whose description contains one at least of loan, emi, credit card, debt,
\* repayment, installment, each of them counted once whatever the number of
\* the keywords it contains; monthlyDebtObligations is totalDebtObligations
\* divided by the span in months.
C20_DebtObligations ==
  pc # "parsed" =>
    LET ts == analysis.transactions
        keywords == { <<"l", "o", "a", "n">>,
                      <<"e", "m", "i">>,
                      <<"c", "r", "e", "d", "i", "t", " ", "c", "a", "r", "d">>,
                      <<"d", "e", "b", "t">>,
                      <<"r", "e", "p", "a", "y", "m", "e", "n", "t">>,
                      <<"i", "n", "s", "t", "a", "l", "l", "m", "e", "n", "t">> }
        debt(t) == \E k \in keywords : Includes(ToLowerCase(t.description), k)
    IN  /\ analysis.totalDebtObligations
             = QSum([i \in 1..Len(ts) |-> IF debt(ts[i]) THEN ts[i].amount ELSE QZero])
        /\ QMul(analysis.monthlyDebtObligations, analysis.accountAgeMonths)
             = analysis.totalDebtObligations
        /\ QGe(analysis.accountAgeMonths, QI(1))

\* "Loan EMI", which contains two of the keywords, 36 days after a salary:
\* the total is its amount, once, and the month's share is less
C20_Witness ==
  /\ pc = "analyzed"
  /\ Len(analysis.transactions) = 2
  /\ \E i \in 1..2 :
        /\ Includes(ToLowerCase(analysis.transactions[i].description), <<"l", "o", "a", "n">>)
        /\ Includes(ToLowerCase(analysis.transactions[i].description), <<"e", "m", "i">>)
        /\ QGt(analysis.transactions[i].amount, QZero)
        /\ analysis.totalDebtObligations = analysis.transactions[i].amount
  /\ QGt(analysis.accountAgeMonths, QI(1))
  /\ QLt(analysis.monthlyDebtObligations, analysis.totalDebtObligations)

----------------------------------------------------------------------------
(* Properties of checkEligibility, checked under SpecElig (C25, C30) *)

\* C30 as stated: whenever checkEligibility returns eligible = false its
\* warnings are not empty, so that the reasons are the warnings and never the
\* generic message.
C30_WarningsWhenIneligible ==
  (pc = "checked" /\ ~eligibility.eligible)
    => /\ eligibility.warnings # <<>>
       /\ eligibility.reasons = eligibility.warnings

\* C30, amended: whenever checkEligibility returns eligible = false for an
\* analysis whose savingsRate is above 0 its warnings are not empty and are
\* the reasons; a score below 60, savingsPerMonth <= 10000, totalIncome <=
\* totalExpenses and 0 < savingsRate <= 5 have each pushed a warning. No rule
\* pushes a warning for savingsRate <= 0: when the warnings are empty the
\* three other conditions hold, savingsRate <= 0 and the reasons are the
\* generic message.
C30_WarningsUnlessRateNotPositive ==
  (pc = "checked" /\ ~eligibility.eligible)
    => /\ QGt(analysis.savingsRate, QZero)
            => /\ eligibility.warnings # <<>>
               /\ eligibility.reasons = eligibility.warnings
       /\ ( \/ eligibility.score < 60
            \/ ~QGt(analysis.savingsPerMonth, QI(threshold))
            \/ ~QGt(analysis.totalIncome, analysis.totalExpenses) )
            => eligibility.warnings # <<>>
       /\ eligibility.warnings = <<>>
            => /\ ~QGt(analysis.savingsRate, QZero)
               /\ eligibility.reasons = <<"Insufficient criteria met">>

\* the savings rate is the one condition that fails, at 5 per cent, and the
\* reasons are the warning about it
C30_Witness ==
  /\ pc = "checked"
  /\ ~eligibility.eligible
  /\ eligibility.score >= 60
  /\ QGt(analysis.savingsPerMonth, QI(threshold))
  /\ QGt(analysis.totalIncome, analysis.totalExpenses)
  /\ QGt(analysis.savingsRate, QZero)
  /\ eligibility.warnings = <<"Low savings rate">>
  /\ eligibility.reasons = eligibility.warnings

\* C25: every analysis with savingsPerMonth > 10000 and totalIncome >
\* totalExpenses, the two conditions of the README, gets eligible = true.
C25_ReadmeRule ==
  ( /\ pc = "checked"
    /\ QGt(analysis.savingsPerMonth, QI(threshold))
    /\ QGt(analysis.totalIncome, analysis.totalExpenses) )
    => eligibility.eligible

----------------------------------------------------------------------------
(* Properties of two runs over the same rows, checked under SpecTwice *)

----------------------------------------------------------------------------
(* Properties of the upload handler, checked under SpecUpload (C21) and    *)
(* SpecUploads (C23, C24)                                                  *)

\* C21: when every field of every row of the uploaded file is empty or white
\* space, no row survives and the upload fails with the error of an empty
\* input: analyzeTransactions is not run and no analysis is returned.
C21_BlankFileFails ==
  \A r \in 1..Len(requests) :
    ( /\ requests[r].stage = "done"
      /\ requests[r].path # <<>>
      /\ \A i \in 1..Len(requests[r].sent) :
           \A j \in 1..Len(requests[r].sent[i]) :
             \A k \in 1..Len(requests[r].sent[i][j][2]) :
               requests[r].sent[i][j][2][k] = " " )
      => /\ requests[r].response.status = 400
         /\ requests[r].response.error = "Failed to parse file"
         /\ requests[r].parseError
              = "CSV file appears to be empty or has no valid data rows"
         /\ requests[r].response.analysis = None
         /\ ~requests[r].analyzed

\* a file of two rows of empty and blank fields was stored, read and refused
C21_Witness ==
  \E r \in 1..Len(requests) :
    /\ requests[r].stage = "done"
    /\ requests[r].path # <<>>
    /\ Len(requests[r].sent) = 2
    /\ \A i \in 1..2 : ~hasData(requests[r].sent[i])
    /\ \E i \in 1..2 : requests[r].sent[i][2][2] = <<" ">>
    /\ requests[r].response.status = 400
    /\ ~requests[r].analyzed

\* C23: whatever the order of the steps of the uploads in flight, the
\* response to each is the one it gets when it runs alone on its own file:
\* the error of its token or of its extension, the error of an empty input
\* when no row of its file has data, and else the analysis of the rows of its
\* file that have data.
C23_UploadsIndependent ==
  \A r \in 1..Len(requests) :
    requests[r].stage = "done" =>
      LET q == requests[r]
          rows == SelectSeq(q.sent, hasData)
      IN  /\ q.response.status =
               (IF q.token = None THEN 401
                ELSE IF ~q.token.signed THEN 403
                ELSE IF ToLowerCase(ExtName(q.name)) # <<".", "c", "s", "v">> THEN 400
                ELSE IF rows = <<>> THEN 400
                ELSE 200)
          /\ q.response.status = 200
               => q.response.analysis = analyzeTransactions(rows)

\* C24: when an upload that stored a file is answered, with the analysis,
\* with the error of an empty or unreadable file or with the error of an
\* exception, the file it stored is not in the uploads directory.
C24_TempFileRemoved ==
  \A r \in 1..Len(requests) :
    (requests[r].stage = "done" /\ requests[r].path # <<>>)
      => \A f \in uploads : f.writer # r

\* two uploads stored under one path: one was answered 400 for its blank
\* rows or 200 with an analysis, the other 500 when it found no file to
\* remove, and the directory is empty
C24_Witness ==
  /\ Len(requests) = 2
  /\ requests[1].stage = "done"
  /\ requests[2].stage = "done"
  /\ requests[1].path # <<>>
  /\ requests[1].path = requests[2].path
  /\ {requests[1].response.status, requests[2].response.status} \in {{400, 500}, {200, 500}}
  /\ uploads = {}

----------------------------------------------------------------------------
(* Properties of the accounts and the applications, checked under          *)
(* SpecAccounts                                                            *)

\* C27: the users list never holds two users of one email, and a
\* registration refused with 400 leaves the list as it was.
C27_OneUserPerEmail ==
  [][ /\ \A u, v \in 1..Len(users') :
           users'[u].email = users'[v].email => u = v
      /\ (last'.op = "register" /\ last'.status = 400) => users' = users ]_vars

\* C28: GET /api/history and GET /api/history/:id answer an authenticated
\* caller with applications created by requests of that caller only.
C28_OwnApplicationsOnly ==
  /\ (last.op = "history" /\ last.status = 200)
       => \A i \in 1..Len(last.body.applications) :
            last.body.applications[i].by = last.token.email
  /\ (last.op = "application" /\ last.status = 200)
       => last.body.application.by = last.token.email

-----------------------------------------------------------------------------
(* Properties of parseImage, checked under SpecImage *)

\* C26: under a header with a debit and a credit column, a row with exactly
\* two usable numeric tokens is emitted once, as debit or credit by the
\* keywords of 4.3 in its description: debit for an expense keyword (purchase,
\* check, withdrawal, charge, debit, payment, fee), else credit for an income
\* keyword (credit, deposit, interest, salary, income, preauthorized), and
\* debit when no keyword matches.
C26_KeywordsDecide ==
  [][ ( /\ pc = "rows"
        /\ pc' = "rows"
        /\ requests[1].columns
        /\ requests[1].i <= Len(requests[1].lines)
        /\ LET line == Trim(requests[1].lines[requests[1].i])
           IN  /\ ~( /\ Includes(ToLowerCase(line), Str.date)
                     /\ \/ Includes(ToLowerCase(line), Str.description)
                        \/ Includes(ToLowerCase(line), Str.debit)
                        \/ Includes(ToLowerCase(line), Str.credit) )
               /\ datePattern(line) # <<>>
               /\ Len(line) >= 10
               /\ Len(cleanAmounts(amountPattern(line, 1))) = 2 )
      => /\ Len(requests'[1].transactions) = Len(requests[1].transactions) + 1
         /\ LET t == requests'[1].transactions[Len(requests'[1].transactions)]
            IN  Get(t, Str.type)
                  = IF isExpense(ToLowerCase(Get(t, Str.description))) THEN Str.debit
                    ELSE IF isIncome(ToLowerCase(Get(t, Str.description))) THEN Str.credit
                    ELSE Str.debit ]_vars

====
